---- MODULE Spec2Model ----
(***************************************************************************)
(* A model of the Telegram RAG ingestion code: the thread detector         *)
(* (thread_detector.py), the message/thread/document models (models.py)    *)
(* and the ingestion pipeline (ingestion.py).                              *)
(*                                                                         *)
(* Conventions: a Python None or empty string is the empty string "", a    *)
(* Python None or 0 integer is 0 (the code tests both with truthiness);    *)
(* timestamps are whole seconds (date_unixtime parsed by int()), a         *)
(* timedelta is its number of seconds.                                     *)
(***************************************************************************)
EXTENDS Integers, Sequences, FiniteSets, TLC

\* ------------------------------------------------------------------ bounds
\* Longest message list handed to detect_threads.
MaxLen == 3
\* Longest run of messages handed to detect_threads in SpecRuns.
MaxRunLen == 5
\* Most documents prepared from one export.
MaxDocs == 3
\* Most threads handed to filter_new_threads, and most messages in one.
MaxThreads == 2
\* ------------------------------------------------------- program constants
\* config.py: thread_time_window_minutes default.
DefaultTimeWindowMinutes == 5
\* config.py: thread_max_messages default.
DefaultMaxMessages == 50
\* thread_detector.py:168, timedelta(minutes=2), in seconds.
QuickReplySeconds == 120
\* timedelta(minutes=1), in seconds.
SecondsPerMinute == 60

\* --------------------------------------------------------------- the inputs
\* date_unixtime values: gaps of 2 minutes exactly (0 to 120), 5 minutes
\* exactly (120 to 420) and 7 minutes (0 to 420) occur, and 0 and negative gaps.
Times == {0, 120, 420}

\* The input messages.  Ids may repeat in a list (an export merged from two
\* chats, api.py upload with merge=True, repeats them).  Alice writes plain
\* messages with id 1 or 3; Bob writes a plain message with id 2 or, with id
\* 3, a reply to id 1; a service message has id 2 and names Bob as its actor.
UserMessages ==
    { [id |-> ir[1], reply_to_message_id |-> ir[2], type |-> "message",
       from_name |-> "Alice", actor |-> "", date_unixtime |-> t] :
        ir \in {<<1, 0>>, <<3, 0>>}, t \in Times }
    \cup
    { [id |-> ir[1], reply_to_message_id |-> ir[2], type |-> "message",
       from_name |-> "Bob", actor |-> "", date_unixtime |-> t] :
        ir \in {<<2, 0>>, <<3, 1>>}, t \in Times }

ServiceMessages ==
    { [id |-> 2, reply_to_message_id |-> 0, type |-> "service",
       from_name |-> "", actor |-> a, date_unixtime |-> t] :
        a \in {"Bob"}, t \in Times }

TelegramMessage == UserMessages \cup ServiceMessages

\* The lists a caller may hand to detect_threads (it does not sort them).
MessageLists == UNION { [1..n -> TelegramMessage] : n \in 0..MaxLen }

\* Runs of messages for SpecRuns: longer lists over fewer messages, a plain
\* message of Alice and a reply of Bob, at the same second or 5 minutes on.
RunMessages ==
    { m \in UserMessages :
        /\ m.date_unixtime \in {120, 420}
        /\ \/ m.from_name = "Alice" /\ m.id = 1
           \/ m.from_name = "Bob" /\ m.reply_to_message_id = 1 }

RunLists == UNION { [1..n -> RunMessages] : n \in 0..MaxRunLen }

\* ThreadDetector(...) calls with the settings in force: each is
\* <<time_window_minutes, max_thread_messages, settings.thread_max_messages>>,
\* an absent argument being 0.  settings.thread_time_window_minutes keeps its
\* default (its validator admits 1..60); thread_max_messages has no validator.
DetectorCalls ==
    { <<0, 0, DefaultMaxMessages>>,
      <<0, 2, DefaultMaxMessages>>,
      <<0, 0, 0>>,
      <<1, 0, DefaultMaxMessages>> }

VARIABLES
    time_window,              \* ThreadDetector.time_window (seconds)
    max_messages,             \* ThreadDetector.max_messages
    messages,                 \* the argument of detect_threads
    reply_map,                \* detect_threads: reply_map
    threads,                  \* detect_threads: threads
    current_thread_messages,  \* detect_threads: current_thread_messages
    next_index,               \* position of the for loop in messages
    stats,                    \* ThreadDetector.stats
    documents,                \* prepare_documents: documents
    pc,                       \* "ready" | "loop" | "done" | "prepared"
    \* the Weaviate collection and one DataIngestion object per pipeline run
    store,                    \* thread_id of every object in the collection
    run,                      \* which run of the pipeline: 0 (none), 1, 2
    skip_existing,            \* ingest_documents: skip_existing
    batch_size,               \* DataIngestion.batch_size
    run_threads,              \* the threads handed to prepare_documents
    prepared,                 \* the documents handed to ingest_documents
    ingest_docs,              \* ingest_documents: documents (after dedup)
    batch_start,              \* ingest_documents: i of the batch loop
    failed_threads,           \* DataIngestion.failed_threads
    ingest_stats,             \* DataIngestion.stats
    batch_errors,             \* "Batch insertion error" lines printed so far
    retry_batches,            \* the lists handed to a retry pass, line 321
    batches,                  \* the batches handed to ingest_batch, line 305
    retry_index,              \* ingest_batch of the retry: position of its
                              \* for loop in failed_threads
    collection,               \* the store has the collection (its schema)
    server_accepts_schema,    \* collections.create succeeds on this server
    schema_created,           \* create_collection returned True in this run
    ipc,                      \* "idle" | "start" | "batches" | "retry" |
                              \* "returned" | "hung"
    \* run_ingestion step 4a and filter_new_threads
    latest_timestamp,         \* run_ingestion: latest_timestamp
    all_threads,              \* run_ingestion: threads (from the export)
    new_threads,              \* filter_new_threads: new_threads
    thread_index,             \* position of the for loop over threads
    fpc,                      \* "idle" | "start" | "filter" | "filtered" |
                              \* "kept" | "no_new" | "raised"
    \* one call of WeaviateDocument.from_thread
    thread_arg,               \* from_thread: thread
    doc_result,               \* what the call gave: a document or an error
    cpc,                      \* "idle" | "call" | "returned" | "raised"
    \* one call of ThreadDetector.load_messages
    export_records,           \* data["messages"] of the export file
    loaded,                   \* load_messages: messages
    skipped,                  \* load_messages: skipped
    record_index,             \* position of the for loop over the records
    lpc,                      \* "idle" | "parse" | "returned" | "raised"
    \* the /upload endpoint and the export file it maintains
    upload,                   \* the request being handled (or none)
    target_file,              \* result.json
    backup_file,              \* result.json.backup
    response,                 \* the last response sent
    uploads,                  \* requests received so far
    upc,                      \* "idle" | "waiting" | "received"
    \* two ingestion runs over one export and one collection, interleaved
    shared_store,             \* thread_id of every object in the collection
    export_docs,              \* the documents both runs prepared
    run_batch_size,           \* DataIngestion.batch_size of both runs
    run_existing_ids,         \* per run: ingest_documents: existing_ids
    run_docs,                 \* per run: ingest_documents: documents
    run_i,                    \* per run: i of the batch loop
    run_pc,                   \* per run: "idle" | "start" | "batches" |
                              \* "returned"
    read_before_write,        \* both runs read the ids before any write
    \* a full run of run_ingestion, then an incremental one on a longer export
    inc_export,               \* the messages of the export file
    inc_store,                \* the objects of the collection
    inc_latest,               \* run_ingestion: latest_timestamp
    inc_query_failed,         \* get_latest_timestamp took its except branch
    inc_threads,              \* run_ingestion: threads
    inc_pc,                   \* "idle" | "start" | "full_done" | "extended" |
                              \* "filtered" | "done" | "raised"
    \* one call of run_ingestion and the connection it opens
    client_opened,            \* connections opened by the call
    client_closed,            \* calls of client.close()
    rel_flags,                \* force_reindex, verify, incremental
    rel_collection,           \* the collection exists
    rel_objects,              \* objects in the collection
    rel_threads,              \* run_ingestion: threads (has a dated message?)
    rel_written,              \* objects the call has written
    rel_error,                \* the exception raised inside the try block
    rel_reraised,             \* the exception the call ends with
    rel_outcome,              \* "none" | "early_return" | "complete"
    rpc,                      \* position in run_ingestion
    \* one call of search_weaviate
    search_limit,             \* search_weaviate: limit
    score_threshold,          \* search_weaviate: score_threshold
    search_hits,              \* results.objects of the hybrid query
    chunks,                   \* search_weaviate: chunks, then the result
    search_opened,            \* connections opened by the call
    search_closed,            \* calls of client.close()
    spc                       \* "idle" | "connect" | "query" | "convert" |
                              \* "finally_return" | "finally_raise" |
                              \* "returned" | "raised"

detectorVars == <<time_window, max_messages, messages, reply_map, threads,
                  current_thread_messages, next_index, stats, documents, pc>>

ingestVars == <<store, run, skip_existing, batch_size, run_threads, prepared, ingest_docs,
                batch_start, failed_threads, ingest_stats, batch_errors,
                retry_batches, batches, retry_index, collection, server_accepts_schema,
                schema_created, ipc>>

filterVars == <<latest_timestamp, all_threads, new_threads, thread_index, fpc>>

convertVars == <<thread_arg, doc_result, cpc>>

loadVars == <<export_records, loaded, skipped, record_index, lpc>>

uploadVars == <<upload, target_file, backup_file, response, uploads, upc>>

concurrentVars == <<shared_store, export_docs, run_batch_size, run_existing_ids,
                    run_docs, run_i, run_pc, read_before_write>>

incrementalVars == <<inc_export, inc_store, inc_latest, inc_query_failed,
                     inc_threads, inc_pc>>

releaseVars == <<client_opened, client_closed, rel_flags, rel_collection,
                 rel_objects, rel_threads, rel_written, rel_error,
                 rel_reraised, rel_outcome, rpc>>

searchVars == <<search_limit, score_threshold, search_hits, chunks,
                search_opened, search_closed, spc>>

vars == <<detectorVars, ingestVars, filterVars, convertVars, loadVars, uploadVars, concurrentVars, incrementalVars, releaseVars, searchVars>>

\* ------------------------------------------------------------- models.py
\* TelegramMessage.get_sender_name
get_sender_name(m) ==
    IF m.type = "message"
    THEN (IF m.from_name = "" THEN "Unknown" ELSE m.from_name)
    ELSE (IF m.actor = "" THEN "System" ELSE m.actor)

\* TelegramMessage.to_timestamp: int(date_unixtime) as a datetime (seconds).
to_timestamp(m) == m.date_unixtime

\* ------------------------------------------------------ thread_detector.py
\* ThreadDetector.__init__: `argument or settings.value`.
InitTimeWindow(time_window_minutes) ==
    (IF time_window_minutes # 0 THEN time_window_minutes
     ELSE DefaultTimeWindowMinutes) * SecondsPerMinute

InitMaxMessages(max_thread_messages, settings_max) ==
    IF max_thread_messages # 0 THEN max_thread_messages ELSE settings_max

\* detect_threads, lines 188-191: the last message with a given id that has a
\* reply target decides the entry of that id.
BuildReplyMap(msgs) ==
    LET repliers == { k \in 1..Len(msgs) : msgs[k].reply_to_message_id # 0 }
        last(i) == CHOOSE k \in repliers :
                      /\ msgs[k].id = i
                      /\ \A j \in repliers : msgs[j].id = i => j <= k
    IN  [ i \in { msgs[k].id : k \in repliers } |->
            msgs[last(i)].reply_to_message_id ]

ThreadIdsLastOnly(thread) == { thread[Len(thread)].id }

\* should_continue_thread, lines 143 and 149: thread_ids.
ThreadIds(thread) == { thread[k].id : k \in 1..Len(thread) }

\* should_continue_thread, lines 159-161: thread_participants.
ThreadParticipants(thread) ==
    { get_sender_name(thread[k]) : k \in 1..Len(thread) }

SizeLimitExceeded(current_thread) == Len(current_thread) > max_messages

\* should_continue_thread, line 127.
SizeLimitReached(current_thread) == Len(current_thread) >= max_messages

\* The window test with the boundary excluded.
OutsideTimeWindowInclusive(time_diff) == time_diff >= time_window

\* should_continue_thread, line 138.
OutsideTimeWindow(time_diff) == time_diff > time_window

\* should_continue_thread, lines 142-145.
RepliesIntoThread(current_thread, new_message) ==
    /\ new_message.reply_to_message_id # 0
    /\ new_message.reply_to_message_id \in ThreadIds(current_thread)

\* should_continue_thread, lines 148-151.
ReplyMapHit(current_thread, new_message, rmap) ==
    /\ new_message.id \in DOMAIN rmap
    /\ rmap[new_message.id] \in ThreadIds(current_thread)

ServiceNeverContinues(time_diff) == FALSE

\* should_continue_thread, line 156.
ServiceWithinWindow(time_diff) == time_diff <= time_window

\* should_continue_thread, lines 164-165.
SameParticipant(current_thread, new_message) ==
    get_sender_name(new_message) \in ThreadParticipants(current_thread)

\* The quick-reply test with the boundary excluded.
QuickReplyExclusive(time_diff) == time_diff < QuickReplySeconds

\* should_continue_thread, lines 168-169.
QuickReply(time_diff) == time_diff <= QuickReplySeconds

\* should_continue_thread, lines 134-171: the tests on a thread that is
\* neither full nor empty.
ContinuesIfRoom(current_thread, new_message, rmap) ==
    LET last_message == current_thread[Len(current_thread)]
        time_diff == to_timestamp(new_message) - to_timestamp(last_message)
    IN  IF OutsideTimeWindow(time_diff) THEN FALSE
        ELSE IF RepliesIntoThread(current_thread, new_message) THEN TRUE
        ELSE IF ReplyMapHit(current_thread, new_message, rmap) THEN TRUE
        ELSE IF new_message.type = "service" THEN ServiceWithinWindow(time_diff)
        ELSE IF SameParticipant(current_thread, new_message) THEN TRUE
        ELSE IF QuickReply(time_diff) THEN TRUE
        ELSE FALSE

should_continue_thread_reply_first(current_thread, new_message, rmap) ==
    IF current_thread = <<>> THEN ~SizeLimitReached(current_thread)
    ELSE IF /\ ~OutsideTimeWindow(to_timestamp(new_message)
                    - to_timestamp(current_thread[Len(current_thread)]))
            /\ RepliesIntoThread(current_thread, new_message)
         THEN TRUE
    ELSE IF SizeLimitReached(current_thread) THEN FALSE
    ELSE ContinuesIfRoom(current_thread, new_message, rmap)

\* ThreadDetector.should_continue_thread
should_continue_thread(current_thread, new_message, rmap) ==
    IF SizeLimitReached(current_thread) THEN FALSE
    ELSE IF current_thread = <<>> THEN TRUE
    ELSE ContinuesIfRoom(current_thread, new_message, rmap)

\* The orders list(set(...)) may give the names in: each name once.
Orderings(S) ==
    { f \in [1..Cardinality(S) -> S] : \A n \in S : \E k \in DOMAIN f : f[k] = n }

\* create_thread, line 241: f"thread_{start_time:%Y%m%d_%H%M%S}_{id}" keeps the
\* start time to the second and the first message's id.
ThreadIdOf(start_time, first_id) == <<"thread", start_time, first_id>>

create_thread_end_is_start(msgs, participants) ==
    [ thread_id     |-> ThreadIdOf(to_timestamp(msgs[1]), msgs[1].id),
      messages      |-> msgs,
      start_time    |-> to_timestamp(msgs[1]),
      end_time      |-> to_timestamp(msgs[1]),
      participants  |-> participants,
      message_count |-> Len(msgs) ]

\* ThreadDetector.create_thread, with the order of list(set(...)) given.
create_thread(msgs, participants) ==
    [ thread_id     |-> ThreadIdOf(to_timestamp(msgs[1]), msgs[1].id),
      messages      |-> msgs,
      start_time    |-> to_timestamp(msgs[1]),
      end_time      |-> to_timestamp(msgs[Len(msgs)]),
      participants  |-> participants,
      message_count |-> Len(msgs) ]

Max(S) == CHOOSE x \in S : \A y \in S : y <= x

\* ThreadDetector.calculate_thread_stats (the integer statistics; the
\* average, a float, is left out).
calculate_thread_stats(old, ths) ==
    IF ths = <<>> THEN old
    ELSE
      LET sizes == [k \in 1..Len(ths) |-> ths[k].message_count]
      IN  [old EXCEPT
             !.single_message_threads =
                 Cardinality({k \in 1..Len(ths) : sizes[k] = 1}),
             !.multi_message_threads =
                 Cardinality({k \in 1..Len(ths) : sizes[k] > 1}),
             !.largest_thread = Max({sizes[k] : k \in 1..Len(ths)})]

\* ThreadDetector.__init__, lines 55-62.
InitStats ==
    [total_messages |-> 0, total_threads |-> 0, single_message_threads |-> 0,
     multi_message_threads |-> 0, largest_thread |-> 0]

\* ------------------------------------------------------------- models.py
\* MessageThread.get_combined_content: one line per message, its time to the
\* second and its sender (the text of a message is not modelled).
get_combined_content(thread) ==
    [ k \in 1..Len(thread.messages) |->
        <<to_timestamp(thread.messages[k]), get_sender_name(thread.messages[k])>> ]

\* MessageThread.get_thread_summary, the fields that do not read the text.
\* message_types is list(set(...)); it is kept as the set.
get_thread_summary(thread) ==
    [ duration_seconds |-> thread.end_time - thread.start_time,
      participant_count |-> Len(thread.participants),
      message_types |-> { thread.messages[k].type : k \in 1..Len(thread.messages) },
      has_replies |-> \E k \in 1..Len(thread.messages) :
                         thread.messages[k].reply_to_message_id # 0,
      reply_count |-> Cardinality({ k \in 1..Len(thread.messages) :
                         thread.messages[k].reply_to_message_id # 0 }),
      unique_senders |-> Cardinality(ThreadParticipants(thread.messages)) ]

\* WeaviateDocument.from_thread (use_contextual_content = False, the default
\* prepare_documents calls it with).
from_thread(thread) ==
    LET summary == get_thread_summary(thread)
    IN  [ content              |-> get_combined_content(thread),
          thread_id            |-> thread.thread_id,
          message_count        |-> thread.message_count,
          participants         |-> thread.participants,
          timestamp            |-> thread.start_time,
          duration_seconds     |-> summary.duration_seconds,
          message_types        |-> summary.message_types,
          has_service_messages |-> "service" \in summary.message_types,
          has_replies          |-> summary.has_replies,
          reply_count          |-> summary.reply_count,
          unique_senders       |-> summary.unique_senders,
          raw_messages         |-> thread.messages ]

\* MessageThread objects constructed with an empty message list
\* (MessageThread has no validator, so messages = [] with message_count = 0
\* is a valid object).
EmptyThreads ==
    { [ thread_id     |-> ThreadIdOf(s, 0),
        messages      |-> <<>>,
        start_time    |-> s,
        end_time      |-> e,
        participants  |-> <<>>,
        message_count |-> 0 ] : s \in Times, e \in Times }

\* ------------------------------------------------------------ the detector
DetectorInit ==
    /\ \E call \in DetectorCalls :
         /\ time_window = InitTimeWindow(call[1])
         /\ max_messages = InitMaxMessages(call[2], call[3])
    /\ messages = <<>>
    /\ reply_map = <<>>
    /\ threads = <<>>
    /\ current_thread_messages = <<>>
    /\ next_index = 0
    /\ stats = InitStats
    /\ documents = <<>>
    /\ pc = "ready"

\* No detector constructed.
DetectorIdle ==
    /\ time_window = 0
    /\ max_messages = 0
    /\ messages = <<>>
    /\ reply_map = <<>>
    /\ threads = <<>>
    /\ current_thread_messages = <<>>
    /\ next_index = 0
    /\ stats = InitStats
    /\ documents = <<>>
    /\ pc = "idle"

\* DataIngestion.__init__: stats.
InitIngestStats ==
    [ total_threads |-> 0,
      processed     |-> 0,
      successful    |-> 0,
      failed        |-> 0,
      skipped       |-> 0 ]

\* No ingestion started.
IngestIdle ==
    /\ store = <<>>
    /\ run = 0
    /\ skip_existing = TRUE
    /\ batch_size = 0
    /\ run_threads = <<>>
    /\ prepared = <<>>
    /\ ingest_docs = <<>>
    /\ batch_start = 0
    /\ failed_threads = <<>>
    /\ ingest_stats = InitIngestStats
    /\ batch_errors = 0
    /\ retry_batches = <<>>
    /\ batches = <<>>
    /\ retry_index = 0
    /\ collection = TRUE
    /\ server_accepts_schema = TRUE
    /\ schema_created = FALSE
    /\ ipc = "idle"

\* Python values that meet in a comparison.
PyNone == [type |-> "NoneType", value |-> 0]

\* No incremental step started.
FilterIdle ==
    /\ latest_timestamp = PyNone
    /\ all_threads = <<>>
    /\ new_threads = <<>>
    /\ thread_index = 0
    /\ fpc = "idle"

\* No call of from_thread is under way.
ConvertIdle ==
    /\ thread_arg = PyNone
    /\ doc_result = PyNone
    /\ cpc = "idle"

\* No call of load_messages is under way.
LoadIdle ==
    /\ export_records = <<>>
    /\ loaded = <<>>
    /\ skipped = 0
    /\ record_index = 0
    /\ lpc = "idle"

\* The upload endpoint is not in use.
UploadIdle ==
    /\ upload = PyNone
    /\ target_file = PyNone
    /\ backup_file = PyNone
    /\ response = PyNone
    /\ uploads = 0
    /\ upc = "idle"

\* The two runs of the interleaved pipeline.
Runs == {1, 2}

\* No interleaved runs are under way.
ConcurrentIdle ==
    /\ shared_store = <<>>
    /\ export_docs = <<>>
    /\ run_batch_size = 0
    /\ run_existing_ids = [p \in Runs |-> {}]
    /\ run_docs = [p \in Runs |-> <<>>]
    /\ run_i = [p \in Runs |-> 0]
    /\ run_pc = [p \in Runs |-> "idle"]
    /\ read_before_write = FALSE

\* No pair of a full and an incremental run is under way.
IncrementalIdle ==
    /\ inc_export = <<>>
    /\ inc_store = <<>>
    /\ inc_latest = PyNone
    /\ inc_query_failed = FALSE
    /\ inc_threads = <<>>
    /\ inc_pc = "idle"

\* run_ingestion is not being called.
ReleaseIdle ==
    /\ client_opened = 0
    /\ client_closed = 0
    /\ rel_flags = [force_reindex |-> FALSE, verify |-> FALSE,
                    incremental |-> FALSE]
    /\ rel_collection = FALSE
    /\ rel_objects = 0
    /\ rel_threads = <<>>
    /\ rel_written = 0
    /\ rel_error = "none"
    /\ rel_reraised = "none"
    /\ rel_outcome = "none"
    /\ rpc = "idle"

\* search_weaviate is not being called.
SearchIdle ==
    /\ search_limit = 0
    /\ score_threshold = 0
    /\ search_hits = <<>>
    /\ chunks = <<>>
    /\ search_opened = 0
    /\ search_closed = 0
    /\ spc = "idle"

Init == DetectorInit /\ IngestIdle /\ FilterIdle /\ ConvertIdle /\ LoadIdle /\ UploadIdle /\ ConcurrentIdle /\ IncrementalIdle /\ ReleaseIdle /\ SearchIdle

\* detect_threads called with a list, lines 187-194: the reply map, then the
\* empty accumulators.
DetectStart ==
    /\ pc = "ready"
    /\ UNCHANGED <<ingestVars, filterVars, convertVars, loadVars, uploadVars, concurrentVars, incrementalVars, releaseVars, searchVars>>
    /\ messages' \in MessageLists
    /\ reply_map' = BuildReplyMap(messages')
    /\ threads' = <<>>
    /\ current_thread_messages' = <<>>
    /\ next_index' = 1
    /\ pc' = "loop"
    /\ UNCHANGED <<time_window, max_messages, stats, documents>>

DetectAcceptFront ==
    /\ pc = "loop"
    /\ UNCHANGED <<ingestVars, filterVars, convertVars, loadVars, uploadVars, concurrentVars, incrementalVars, releaseVars, searchVars>>
    /\ next_index <= Len(messages)
    /\ should_continue_thread(current_thread_messages, messages[next_index], reply_map)
    /\ current_thread_messages' = <<messages[next_index]>> \o current_thread_messages
    /\ next_index' = next_index + 1
    /\ UNCHANGED <<time_window, max_messages, messages, reply_map, threads,
                   stats, documents, pc>>

\* detect_threads, lines 197-200: the message continues the open thread.
DetectAccept ==
    /\ pc = "loop"
    /\ UNCHANGED <<ingestVars, filterVars, convertVars, loadVars, uploadVars, concurrentVars, incrementalVars, releaseVars, searchVars>>
    /\ next_index <= Len(messages)
    /\ should_continue_thread(current_thread_messages, messages[next_index], reply_map)
    /\ current_thread_messages' = Append(current_thread_messages, messages[next_index])
    /\ next_index' = next_index + 1
    /\ UNCHANGED <<time_window, max_messages, messages, reply_map, threads,
                   stats, documents, pc>>

DetectRejectDropsMessage ==
    /\ pc = "loop"
    /\ UNCHANGED <<ingestVars, filterVars, convertVars, loadVars, uploadVars, concurrentVars, incrementalVars, releaseVars, searchVars>>
    /\ next_index <= Len(messages)
    /\ ~should_continue_thread(current_thread_messages, messages[next_index], reply_map)
    /\ IF current_thread_messages # <<>>
       THEN \E p \in Orderings(ThreadParticipants(current_thread_messages)) :
              threads' = Append(threads, create_thread(current_thread_messages, p))
       ELSE threads' = threads
    /\ current_thread_messages' = <<>>
    /\ next_index' = next_index + 1
    /\ UNCHANGED <<time_window, max_messages, messages, reply_map, stats,
                   documents, pc>>

\* A reject that seals the open thread into the place of the last sealed
\* thread instead of appending it.
DetectRejectRedrawsBoundary ==
    /\ pc = "loop"
    /\ UNCHANGED <<ingestVars, filterVars, convertVars, loadVars, uploadVars, concurrentVars, incrementalVars, releaseVars, searchVars>>
    /\ next_index <= Len(messages)
    /\ ~should_continue_thread(current_thread_messages, messages[next_index], reply_map)
    /\ IF current_thread_messages # <<>>
       THEN \E p \in Orderings(ThreadParticipants(current_thread_messages)) :
              threads' = IF threads = <<>>
                         THEN <<create_thread(current_thread_messages, p)>>
                         ELSE [threads EXCEPT ![Len(threads)] =
                                 create_thread(current_thread_messages, p)]
       ELSE threads' = threads
    /\ current_thread_messages' = <<messages[next_index]>>
    /\ next_index' = next_index + 1
    /\ UNCHANGED <<time_window, max_messages, messages, reply_map, stats,
                   documents, pc>>

\* detect_threads, lines 201-208: the open thread, if any, is sealed and the
\* message starts the next one.
DetectReject ==
    /\ pc = "loop"
    /\ UNCHANGED <<ingestVars, filterVars, convertVars, loadVars, uploadVars, concurrentVars, incrementalVars, releaseVars, searchVars>>
    /\ next_index <= Len(messages)
    /\ ~should_continue_thread(current_thread_messages, messages[next_index], reply_map)
    /\ IF current_thread_messages # <<>>
       THEN \E p \in Orderings(ThreadParticipants(current_thread_messages)) :
              threads' = Append(threads, create_thread(current_thread_messages, p))
       ELSE threads' = threads
    /\ current_thread_messages' = <<messages[next_index]>>
    /\ next_index' = next_index + 1
    /\ UNCHANGED <<time_window, max_messages, messages, reply_map, stats,
                   documents, pc>>

\* detect_threads, lines 210-221: the last thread, the statistics, the return.
DetectFinish ==
    /\ pc = "loop"
    /\ UNCHANGED <<ingestVars, filterVars, convertVars, loadVars, uploadVars, concurrentVars, incrementalVars, releaseVars, searchVars>>
    /\ next_index > Len(messages)
    /\ IF current_thread_messages # <<>>
       THEN \E p \in Orderings(ThreadParticipants(current_thread_messages)) :
              threads' = Append(threads, create_thread(current_thread_messages, p))
       ELSE threads' = threads
    /\ stats' = calculate_thread_stats(
                    [stats EXCEPT !.total_threads = Len(threads')], threads')
    /\ pc' = "done"
    /\ UNCHANGED <<time_window, max_messages, messages, reply_map,
                   current_thread_messages, next_index, documents>>

\* DataIngestion.prepare_documents on the detected threads (from_thread does
\* not raise on a thread that create_thread built).
PrepareDocuments ==
    /\ pc = "done"
    /\ UNCHANGED <<ingestVars, filterVars, convertVars, loadVars, uploadVars, concurrentVars, incrementalVars, releaseVars, searchVars>>
    /\ documents' = [k \in 1..Len(threads) |-> from_thread(threads[k])]
    /\ pc' = "prepared"
    /\ UNCHANGED <<time_window, max_messages, messages, reply_map, threads,
                   current_thread_messages, next_index, stats>>

Next ==
    \/ DetectStart
    \/ DetectAccept
    \/ DetectReject
    \/ DetectFinish
    \/ PrepareDocuments

Spec == Init /\ [][Next]_vars

\* detect_threads called with a run of messages (RunLists).
DetectStartRun ==
    /\ pc = "ready"
    /\ UNCHANGED <<ingestVars, filterVars, convertVars, loadVars, uploadVars, concurrentVars, incrementalVars, releaseVars, searchVars>>
    /\ messages' \in RunLists
    /\ reply_map' = BuildReplyMap(messages')
    /\ threads' = <<>>
    /\ current_thread_messages' = <<>>
    /\ next_index' = 1
    /\ pc' = "loop"
    /\ UNCHANGED <<time_window, max_messages, stats, documents>>

NextRuns ==
    \/ DetectStartRun
    \/ DetectAccept
    \/ DetectReject
    \/ DetectFinish
    \/ PrepareDocuments

\* The detector on longer runs of fewer messages.
SpecRuns == Init /\ [][NextRuns]_vars

\* Bound on the length of the lists of SpecPrefix.
MaxPrefixLen == 3

\* date_unixtime values of SpecPrefix: 100 s apart, 5 minutes apart (the
\* time window exactly, more than a quick reply), and further apart.
PrefixTimes == {0, 300, 400}

\* Messages of SpecPrefix: plain messages of Alice (id 1), Bob (id 2) and
\* Carol (id 3), and a reply of Bob to id 1 that carries id 3 as well (ids
\* repeat in an export merged from two chats).
PrefixMessages ==
    { [id |-> s[1], reply_to_message_id |-> s[2], type |-> "message",
       from_name |-> s[3], actor |-> "", date_unixtime |-> t] :
        s \in { <<1, 0, "Alice">>, <<2, 0, "Bob">>, <<3, 0, "Carol">>,
                <<3, 1, "Bob">> },
        t \in PrefixTimes }

\* detect_threads called with a list in time order, as load_messages
\* leaves it (line 98).
DetectStartSorted ==
    /\ pc = "ready"
    /\ UNCHANGED <<ingestVars, filterVars, convertVars, loadVars, uploadVars, concurrentVars, incrementalVars, releaseVars, searchVars>>
    /\ \E n \in 0..MaxPrefixLen :
         \E msgs \in [1..n -> PrefixMessages] :
            /\ \A k \in 1..(n - 1) :
                   msgs[k].date_unixtime <= msgs[k + 1].date_unixtime
            /\ messages' = msgs
    /\ reply_map' = BuildReplyMap(messages')
    /\ threads' = <<>>
    /\ current_thread_messages' = <<>>
    /\ next_index' = 1
    /\ pc' = "loop"
    /\ UNCHANGED <<time_window, max_messages, stats, documents>>

NextPrefix ==
    \/ DetectStartSorted
    \/ DetectAccept
    \/ DetectReject
    \/ DetectFinish
    \/ PrepareDocuments

\* The detector on lists in time order.
SpecPrefix == Init /\ [][NextPrefix]_vars

\* ----------------------------------------------------------- ingestion
\* ingest_documents retries only when fewer than this many documents failed.
RetryLimit == 50

\* config.py: batch_size default.
DefaultBatchSize == 100

\* DataIngestion(client, batch_size): batch_size or settings.batch_size.
BatchSizes == {1, 2, DefaultBatchSize}

\* A prepared WeaviateDocument: its thread_id, and whether
\* to_weaviate_object returns for it (it raises otherwise).
WeaviateDocument == [thread_id : 1..MaxDocs, convertible : BOOLEAN]

\* The documents prepared from one export whose threads have distinct ids.
PreparedLists ==
    UNION { { d \in [1..n -> WeaviateDocument] :
                \A k \in 1..n : d[k].thread_id = k } : n \in 0..MaxDocs }

\* The documents of a larger export, one short of the retry limit or at it;
\* every document converts.
LargePreparedLists ==
    { [k \in 1..n |-> [thread_id |-> k, convertible |-> TRUE]] :
        n \in {RetryLimit - 1, RetryLimit} }

SeqThreadIds(docs) == [k \in 1..Len(docs) |-> docs[k].thread_id]

Convertible(doc) == doc.convertible

NotConvertible(doc) == ~doc.convertible

\* check_existing_threads: the thread_ids of the collection, or the empty set
\* when fetching them raises (lines 145-147).
check_existing_threads(listing_ok) ==
    IF listing_ok THEN { store[k] : k \in 1..Len(store) } ELSE {}

\* ingest_batch recording only the documents the failed write had not
\* stored.
ingest_batch_records_unwritten(docs, failed_before, raises, written) ==
    LET batch_data == SelectSeq(docs, Convertible)
        unprepared == SelectSeq(docs, NotConvertible)
    IN  IF batch_data = <<>>
        THEN [ success        |-> 0,
               failed         |-> Len(unprepared),
               failed_threads |-> failed_before \o unprepared,
               stored         |-> <<>>,
               errors         |-> 0 ]
        ELSE IF raises
        THEN [ success        |-> 0,
               failed         |-> Len(unprepared) + Len(batch_data),
               failed_threads |-> failed_before \o unprepared \o
                                  SubSeq(batch_data, written + 1, Len(batch_data)),
               stored         |-> SubSeq(SeqThreadIds(batch_data), 1, written),
               errors         |-> 1 ]
        ELSE [ success        |-> Len(batch_data),
               failed         |-> Len(unprepared),
               failed_threads |-> failed_before \o unprepared,
               stored         |-> SeqThreadIds(batch_data),
               errors         |-> 0 ]

\* ingest_batch(documents) with failed_threads = failed_before. The batch
\* insertion either stores all of batch_data, or raises after `written` of
\* its objects reached the collection (the callers let fewer than MaxDocs
\* objects through before the error).
ingest_batch(docs, failed_before, raises, written) ==
    LET batch_data == SelectSeq(docs, Convertible)
        unprepared == SelectSeq(docs, NotConvertible)
    IN  IF batch_data = <<>>
        THEN [ success        |-> 0,
               failed         |-> Len(unprepared),
               failed_threads |-> failed_before \o unprepared,
               stored         |-> <<>>,
               errors         |-> 0 ]
        ELSE IF raises
        THEN [ success        |-> 0,
               failed         |-> Len(unprepared) + Len(batch_data),
               failed_threads |-> failed_before \o unprepared \o docs,
               stored         |-> SubSeq(SeqThreadIds(batch_data), 1, written),
               errors         |-> 1 ]
        ELSE [ success        |-> Len(batch_data),
               failed         |-> Len(unprepared),
               failed_threads |-> failed_before \o unprepared,
               stored         |-> SeqThreadIds(batch_data),
               errors         |-> 0 ]

\* WeaviateSchema.collection_exists, schema.py lines 147-158, on the
\* connection step 1 of run_ingestion opened.
collection_exists(coll) == coll

\* create_collection that never creates the collection.
create_collection_never_creates(coll, accepts) ==
    [ created |-> FALSE, collection |-> coll ]

\* WeaviateSchema.create_collection(force=False), schema.py lines 160-211:
\* False when the collection exists; otherwise collections.create, True when
\* the server accepts it and False (the exception is caught and printed)
\* when it does not.
create_collection(coll, accepts) ==
    IF collection_exists(coll)
    THEN [ created |-> FALSE, collection |-> coll ]
    ELSE IF accepts
    THEN [ created |-> TRUE, collection |-> TRUE ]
    ELSE [ created |-> FALSE, collection |-> FALSE ]

\* run_ingestion step 2, lines 442-451: create_collection is called when the
\* collection does not exist, and what it returns is not looked at.
verify_schema(coll, accepts) ==
    IF ~collection_exists(coll)
    THEN create_collection(coll, accepts)
    ELSE [ created |-> FALSE, collection |-> coll ]

Min(a, b) == IF a <= b THEN a ELSE b

\* The threads of an export: thread k would convert to docs[k], and the
\* threads at the positions in fails do not convert (from_thread raises).
ExportThreads(docs, fails) ==
    [ k \in 1..Len(docs) |->
        [ thread_id   |-> docs[k].thread_id,
          convertible |-> docs[k].convertible,
          converts    |-> k \notin fails ] ]

\* DataIngestion.prepare_documents, lines 66-100, on a new DataIngestion:
\* the documents of the threads that convert, in order, and
\* stats["skipped"], one for every thread that does not.
prepare_documents(ths) ==
    LET converted == SelectSeq(ths, LAMBDA t : t.converts)
    IN  [ documents |-> [ k \in 1..Len(converted) |->
                            [ thread_id   |-> converted[k].thread_id,
                              convertible |-> converted[k].convertible ] ],
          skipped   |-> Len(ths) - Len(converted) ]

\* ingest_documents not yet called: the settings of the runs.
IngestInit ==
    /\ store = <<>>
    /\ run = 0
    /\ skip_existing \in BOOLEAN
    /\ batch_size \in BatchSizes
    /\ run_threads = <<>>
    /\ prepared = <<>>
    /\ ingest_docs = <<>>
    /\ batch_start = 0
    /\ failed_threads = <<>>
    /\ ingest_stats = InitIngestStats
    /\ batch_errors = 0
    /\ retry_batches = <<>>
    /\ batches = <<>>
    /\ retry_index = 0
    /\ collection \in BOOLEAN
    /\ server_accepts_schema \in BOOLEAN
    /\ collection => server_accepts_schema
    /\ schema_created = FALSE
    /\ ipc = "idle"

InitIngest == DetectorIdle /\ IngestInit /\ FilterIdle /\ ConvertIdle /\ LoadIdle /\ UploadIdle /\ ConcurrentIdle /\ IncrementalIdle /\ ReleaseIdle /\ SearchIdle

\* run_ingestion, first run: a new DataIngestion, documents prepared from the
\* export, ingest_documents called.
RunIngestion ==
    /\ ipc = "idle"
    /\ collection' = verify_schema(collection, server_accepts_schema).collection
    /\ schema_created' = verify_schema(collection, server_accepts_schema).created
    /\ UNCHANGED server_accepts_schema
    /\ retry_batches' = <<>>
    /\ batches' = <<>>
    /\ retry_index' = 0
    /\ run = 0
    /\ run' = 1
    /\ \E docs \in PreparedLists \cup
                     (IF batch_size = DefaultBatchSize
                      THEN LargePreparedLists ELSE {}) :
       \E fails \in SUBSET { k \in 1..Min(Len(docs), MaxDocs) :
                                 Convertible(docs[k]) } :
         run_threads' = ExportThreads(docs, fails)
    /\ prepared' = prepare_documents(run_threads').documents
    /\ ingest_docs' = <<>>
    /\ batch_start' = 0
    /\ failed_threads' = <<>>
    /\ ingest_stats' = [InitIngestStats EXCEPT
                          !.skipped = prepare_documents(run_threads').skipped]
    /\ ipc' = "start"
    /\ UNCHANGED <<store, skip_existing, batch_size, batch_errors>>
    /\ UNCHANGED <<detectorVars, filterVars, convertVars, loadVars, uploadVars, concurrentVars, incrementalVars, releaseVars, searchVars>>

\* run_ingestion, second run over the same export: a new DataIngestion.
RunIngestionAgain ==
    /\ ipc = "returned"
    /\ collection' = verify_schema(collection, server_accepts_schema).collection
    /\ schema_created' = verify_schema(collection, server_accepts_schema).created
    /\ UNCHANGED server_accepts_schema
    /\ retry_batches' = <<>>
    /\ batches' = <<>>
    /\ retry_index' = 0
    /\ run = 1
    /\ run' = 2
    /\ prepared' = prepare_documents(run_threads).documents
    /\ ingest_docs' = <<>>
    /\ batch_start' = 0
    /\ failed_threads' = <<>>
    /\ ingest_stats' = [InitIngestStats EXCEPT
                          !.skipped = prepare_documents(run_threads).skipped]
    /\ ipc' = "start"
    /\ UNCHANGED <<store, skip_existing, batch_size, run_threads, batch_errors>>
    /\ UNCHANGED <<detectorVars, filterVars, convertVars, loadVars, uploadVars, concurrentVars, incrementalVars, releaseVars, searchVars>>

\* ingest_documents lines 256-274: the existing ids, the dedup filter, the
\* early return when nothing is left.
IngestDocumentsStart ==
    /\ UNCHANGED <<collection, server_accepts_schema, schema_created, batches,
                   run_threads, retry_index>>
    /\ ipc = "start"
    /\ UNCHANGED retry_batches
    /\ \E listing_ok \in BOOLEAN :
         LET existing_ids == IF skip_existing
                             THEN check_existing_threads(listing_ok)
                             ELSE {}
             kept == IF existing_ids # {}
                     THEN SelectSeq(prepared,
                                    LAMBDA doc : doc.thread_id \notin existing_ids)
                     ELSE prepared
         IN  /\ (~skip_existing) => listing_ok
             /\ listing_ok => collection
             /\ ingest_docs' = kept
             /\ ingest_stats' =
                  [ ingest_stats EXCEPT
                      !.total_threads = Len(prepared),
                      !.skipped = IF existing_ids # {}
                                  THEN Len(prepared) - Len(kept)
                                  ELSE @ ]
             /\ ipc' = IF kept = <<>> THEN "returned" ELSE "batches"
    /\ batch_start' = 0
    /\ UNCHANGED <<store, run, skip_existing, batch_size, prepared,
                   failed_threads, batch_errors>>
    /\ UNCHANGED <<detectorVars, filterVars, convertVars, loadVars, uploadVars, concurrentVars, incrementalVars, releaseVars, searchVars>>

\* A slice that takes one document more than the batch size.
batch_slice_one_more(docs, i, size) ==
    SubSeq(docs, i + 1, Min(i + size + 1, Len(docs)))

\* documents[i:i + self.batch_size], line 295.
batch_slice(docs, i, size) == SubSeq(docs, i + 1, Min(i + size, Len(docs)))

\* One iteration of the batch loop, lines 294-314, ingest_batch included.
IngestBatch ==
    /\ UNCHANGED <<collection, server_accepts_schema, schema_created,
                   run_threads, retry_index>>
    /\ ipc = "batches"
    /\ UNCHANGED retry_batches
    /\ batch_start < Len(ingest_docs)
    /\ LET batch == batch_slice(ingest_docs, batch_start, batch_size)
       IN  /\ batches' = Append(batches, batch)
           /\ \E raises \in BOOLEAN :
               \E written \in 0..Min(Len(batch), MaxDocs - 1) :
                 LET results == ingest_batch(batch, failed_threads, raises, written)
                 IN  /\ raises => SelectSeq(batch, Convertible) # <<>>
                     /\ (~collection) => written = 0
                     /\ written <= IF raises
                                   THEN Len(SelectSeq(batch, Convertible)) - 1
                                   ELSE 0
                     /\ store' = IF collection THEN store \o results.stored ELSE store
                     /\ failed_threads' = results.failed_threads
                     /\ batch_errors' = batch_errors + results.errors
                     /\ ingest_stats' =
                          [ ingest_stats EXCEPT
                              !.successful = @ + results.success,
                              !.failed = @ + results.failed,
                              !.processed = @ + Len(batch) ]
    /\ batch_start' = batch_start + batch_size
    /\ UNCHANGED <<run, skip_existing, batch_size, prepared, ingest_docs, ipc>>
    /\ UNCHANGED <<detectorVars, filterVars, convertVars, loadVars, uploadVars, concurrentVars, incrementalVars, releaseVars, searchVars>>

\* The retry pass adding its failures to the count of the first pass.
IngestRetryAddsFailed ==
    /\ UNCHANGED <<collection, server_accepts_schema, schema_created, batches,
                   run_threads, retry_index>>
    /\ ipc = "batches"
    /\ retry_batches' = Append(retry_batches, failed_threads)
    /\ batch_start >= Len(ingest_docs)
    /\ failed_threads # <<>>
    /\ Len(failed_threads) < RetryLimit
    /\ \A k \in 1..Len(failed_threads) : Convertible(failed_threads[k])
    /\ \E raises \in BOOLEAN :
       \E written \in 0..Min(Len(failed_threads) - 1, MaxDocs - 1) :
         LET retry_results == ingest_batch(failed_threads, failed_threads,
                                           raises, written)
         IN  /\ raises \/ written = 0
             /\ (~collection) => written = 0
             /\ store' = IF collection THEN store \o retry_results.stored
                                    ELSE store
             /\ failed_threads' = retry_results.failed_threads
             /\ batch_errors' = batch_errors + retry_results.errors
             /\ ingest_stats' =
                  [ ingest_stats EXCEPT
                      !.successful = @ + retry_results.success,
                      !.failed = @ + retry_results.failed ]
    /\ ipc' = "returned"
    /\ UNCHANGED <<run, skip_existing, batch_size, prepared, ingest_docs,
                   batch_start>>
    /\ UNCHANGED <<detectorVars, filterVars, convertVars, loadVars, uploadVars, concurrentVars, incrementalVars, releaseVars, searchVars>>

\* Lines 319-323: the retry pass over failed_threads, every document of which
\* converts. ingest_batch is handed the failed_threads list itself.
IngestRetry ==
    /\ UNCHANGED <<collection, server_accepts_schema, schema_created, batches,
                   run_threads, retry_index>>
    /\ ipc = "batches"
    /\ retry_batches' = Append(retry_batches, failed_threads)
    /\ batch_start >= Len(ingest_docs)
    /\ failed_threads # <<>>
    /\ Len(failed_threads) < RetryLimit
    /\ \A k \in 1..Len(failed_threads) : Convertible(failed_threads[k])
    /\ \E raises \in BOOLEAN :
       \E written \in 0..Min(Len(failed_threads) - 1, MaxDocs - 1) :
         LET retry_results == ingest_batch(failed_threads, failed_threads,
                                           raises, written)
         IN  /\ raises \/ written = 0
             /\ (~collection) => written = 0
             /\ store' = IF collection THEN store \o retry_results.stored
                                    ELSE store
             /\ failed_threads' = retry_results.failed_threads
             /\ batch_errors' = batch_errors + retry_results.errors
             /\ ingest_stats' =
                  [ ingest_stats EXCEPT
                      !.successful = @ + retry_results.success,
                      !.failed = retry_results.failed ]
    /\ ipc' = "returned"
    /\ UNCHANGED <<run, skip_existing, batch_size, prepared, ingest_docs,
                   batch_start>>
    /\ UNCHANGED <<detectorVars, filterVars, convertVars, loadVars, uploadVars, concurrentVars, incrementalVars, releaseVars, searchVars>>

\* Lines 319-321 and 218-226: the retry pass when a document of
\* failed_threads does not convert. The loop over documents appends the
\* document to failed_threads, the list it iterates, and so meets it again.
IngestRetryHangs ==
    /\ UNCHANGED <<collection, server_accepts_schema, schema_created, batches,
                   run_threads>>
    /\ ipc = "batches"
    /\ retry_batches' = Append(retry_batches, failed_threads)
    /\ batch_start >= Len(ingest_docs)
    /\ failed_threads # <<>>
    /\ Len(failed_threads) < RetryLimit
    /\ \E k \in 1..Len(failed_threads) : NotConvertible(failed_threads[k])
    /\ retry_index' = 1
    /\ ipc' = "hung"
    /\ UNCHANGED <<store, run, skip_existing, batch_size, prepared,
                   ingest_docs, batch_start, failed_threads, ingest_stats,
                   batch_errors>>
    /\ UNCHANGED <<detectorVars, filterVars, convertVars, loadVars, uploadVars, concurrentVars, incrementalVars, releaseVars, searchVars>>

\* Iterations of that loop the model follows.
MaxRetrySteps == 8

\* One iteration of the for loop of ingest_batch (216-226) in the retry
\* pass, where documents is the failed_threads list itself: a document that
\* does not convert is appended to the list being iterated, so the loop has
\* one more element to visit for every such element it visits.
IngestRetryIterates ==
    /\ ipc = "hung"
    /\ retry_index <= Len(failed_threads)
    /\ retry_index <= MaxRetrySteps
    /\ failed_threads' =
          IF NotConvertible(failed_threads[retry_index])
          THEN Append(failed_threads, failed_threads[retry_index])
          ELSE failed_threads
    /\ retry_index' = retry_index + 1
    /\ UNCHANGED <<store, run, skip_existing, batch_size, run_threads, prepared,
                   ingest_docs, batch_start, ingest_stats, batch_errors,
                   retry_batches, batches, collection, server_accepts_schema,
                   schema_created, ipc>>
    /\ UNCHANGED <<detectorVars, filterVars, convertVars, loadVars, uploadVars, concurrentVars, incrementalVars, releaseVars, searchVars>>

\* Line 319 false: no retry, ingest_documents returns.
IngestReturn ==
    /\ UNCHANGED <<collection, server_accepts_schema, schema_created, batches,
                   run_threads, retry_index>>
    /\ ipc = "batches"
    /\ UNCHANGED retry_batches
    /\ batch_start >= Len(ingest_docs)
    /\ ~(failed_threads # <<>> /\ Len(failed_threads) < RetryLimit)
    /\ ipc' = "returned"
    /\ UNCHANGED <<store, run, skip_existing, batch_size, prepared,
                   ingest_docs, batch_start, failed_threads, ingest_stats,
                   batch_errors>>
    /\ UNCHANGED <<detectorVars, filterVars, convertVars, loadVars, uploadVars, concurrentVars, incrementalVars, releaseVars, searchVars>>

NextIngest ==
    \/ RunIngestion
    \/ RunIngestionAgain
    \/ IngestDocumentsStart
    \/ IngestBatch
    \/ IngestRetry
    \/ IngestRetryHangs
    \/ IngestRetryIterates
    \/ IngestReturn

\* Two runs of the ingestion pipeline over one export, one after the other.
SpecIngest == InitIngest /\ [][NextIngest]_vars

\* ------------------------------------------------- incremental filter
\* Instants of the messages and of the latest stored timestamp.
Instants == {1, 2}

\* A str holding the ISO text of instant n; PyStr(0) is the empty string.
PyStr(n) == [type |-> "str", value |-> n]

\* A datetime object for instant n.
PyDatetime(n) == [type |-> "datetime", value |-> n]

\* bool(v) of a Python value.
Truthy(v) ==
    CASE v.type = "str" -> v.value # 0
      [] v.type = "datetime" -> TRUE
      [] OTHER -> FALSE

\* a > b of two Python values: ordered within one type, TypeError between a
\* str and a datetime.
PyGreater(a, b) ==
    IF a.type = b.type
    THEN IF a.value > b.value THEN "True" ELSE "False"
    ELSE "TypeError"

\* TelegramMessage as filter_new_threads reads it: date is a str, the ISO
\* text of the instant in date_unixtime, or empty.
DatedMessages ==
    { [date |-> PyStr(1), date_unixtime |-> 1],
      [date |-> PyStr(2), date_unixtime |-> 2],
      [date |-> PyStr(0), date_unixtime |-> 2] }

DatedThreads ==
    { [messages |-> ms] :
        ms \in UNION { [1..n -> DatedMessages] : n \in 1..MaxThreads } }

ThreadLists == UNION { [1..n -> DatedThreads] : n \in 0..MaxThreads }

\* get_latest_timestamp: a datetime, or None for an empty collection or a
\* failed query.
LatestTimestamps == {PyNone} \cup { PyDatetime(n) : n \in Instants }

\* The inner loop of filter_new_threads, lines 192-196, from message k on:
\* "True", "False", or "TypeError" when the comparison raises.
RECURSIVE HasNewMessagesFrom(_, _, _)
HasNewMessagesFrom(thread, since, k) ==
    IF k > Len(thread.messages)
    THEN "False"
    ELSE LET msg == thread.messages[k]
         IN  IF ~Truthy(msg.date)
             THEN HasNewMessagesFrom(thread, since, k + 1)
             ELSE LET greater == PyGreater(msg.date, since)
                  IN  IF greater = "False"
                      THEN HasNewMessagesFrom(thread, since, k + 1)
                      ELSE greater

has_new_messages(thread, since) == HasNewMessagesFrom(thread, since, 1)

InitFilter == DetectorIdle /\ IngestIdle /\ FilterIdle /\ ConvertIdle /\ LoadIdle /\ UploadIdle /\ ConcurrentIdle /\ IncrementalIdle /\ ReleaseIdle /\ SearchIdle

\* run_ingestion lines 462-478 with no latest timestamp: the thread list is
\* kept whole.
IncrementalFullIngestion ==
    /\ fpc = "idle"
    /\ all_threads' \in ThreadLists
    /\ latest_timestamp' \in LatestTimestamps
    /\ ~Truthy(latest_timestamp')
    /\ new_threads' = all_threads'
    /\ thread_index' = 0
    /\ fpc' = "kept"
    /\ UNCHANGED <<detectorVars, ingestVars, convertVars, loadVars, uploadVars, concurrentVars, incrementalVars, releaseVars, searchVars>>

\* run_ingestion lines 462-470 with a latest timestamp: filter_new_threads is
\* called, line 188.
FilterStart ==
    /\ fpc = "idle"
    /\ all_threads' \in ThreadLists
    /\ latest_timestamp' \in LatestTimestamps
    /\ Truthy(latest_timestamp')
    /\ new_threads' = <<>>
    /\ thread_index' = 1
    /\ fpc' = "filter"
    /\ UNCHANGED <<detectorVars, ingestVars, convertVars, loadVars, uploadVars, concurrentVars, incrementalVars, releaseVars, searchVars>>

\* One iteration of the loop over threads, lines 190-199.
FilterThread ==
    /\ fpc = "filter"
    /\ thread_index <= Len(all_threads)
    /\ LET has_new == has_new_messages(all_threads[thread_index],
                                       latest_timestamp)
       IN  /\ has_new # "TypeError"
           /\ new_threads' = IF has_new = "True"
                             THEN Append(new_threads, all_threads[thread_index])
                             ELSE new_threads
    /\ thread_index' = thread_index + 1
    /\ UNCHANGED <<latest_timestamp, all_threads, fpc>>
    /\ UNCHANGED <<detectorVars, ingestVars, convertVars, loadVars, uploadVars, concurrentVars, incrementalVars, releaseVars, searchVars>>

\* The comparison of line 194 raises: filter_new_threads and run_ingestion
\* end with the TypeError (lines 503-505).
FilterThreadRaises ==
    /\ fpc = "filter"
    /\ thread_index <= Len(all_threads)
    /\ has_new_messages(all_threads[thread_index], latest_timestamp)
         = "TypeError"
    /\ fpc' = "raised"
    /\ UNCHANGED <<latest_timestamp, all_threads, new_threads, thread_index>>
    /\ UNCHANGED <<detectorVars, ingestVars, convertVars, loadVars, uploadVars, concurrentVars, incrementalVars, releaseVars, searchVars>>

\* filter_new_threads returns, line 201; run_ingestion lines 471-476.
FilterReturn ==
    /\ fpc = "filter"
    /\ thread_index > Len(all_threads)
    /\ fpc' = IF Len(new_threads) = 0 THEN "no_new" ELSE "filtered"
    /\ UNCHANGED <<latest_timestamp, all_threads, new_threads, thread_index>>
    /\ UNCHANGED <<detectorVars, ingestVars, convertVars, loadVars, uploadVars, concurrentVars, incrementalVars, releaseVars, searchVars>>

NextFilter ==
    \/ IncrementalFullIngestion
    \/ FilterStart
    \/ FilterThread
    \/ FilterThreadRaises
    \/ FilterReturn

\* Step 4a of run_ingestion with incremental set.
SpecFilter == InitFilter /\ [][NextFilter]_vars

\* ================================================================ properties
\* detect_threads has returned.
\* ------------------------------------------- models.py: one from_thread call
\* WeaviateDocument.from_thread is about to be called with a MessageThread:
\* a thread create_thread builds, or one with an empty message list.
InitConvert ==
    /\ DetectorIdle /\ IngestIdle /\ FilterIdle /\ LoadIdle /\ UploadIdle /\ ConcurrentIdle
    /\ IncrementalIdle /\ ReleaseIdle /\ SearchIdle
    /\ \E msgs \in MessageLists :
         IF msgs = <<>>
         THEN thread_arg \in EmptyThreads
         ELSE \E p \in Orderings(ThreadParticipants(msgs)) :
                thread_arg = create_thread(msgs, p)
    /\ doc_result = PyNone
    /\ cpc = "call"

\* WeaviateDocument.from_thread, lines 319-373: no statement of it or of
\* get_combined_content / get_thread_summary tests the message list for
\* emptiness (the join of no lines is "", the two divisions are guarded by
\* "if text_messages else 0" and max(..., 1)), and no field of
\* WeaviateDocument carries a constraint, so the constructor returns.
FromThread ==
    /\ cpc = "call"
    /\ UNCHANGED <<detectorVars, ingestVars, filterVars, loadVars, uploadVars, concurrentVars, incrementalVars, releaseVars, searchVars>>
    /\ doc_result' = [type |-> "WeaviateDocument", value |-> from_thread(thread_arg)]
    /\ cpc' = "returned"
    /\ UNCHANGED thread_arg

NextConvert ==
    \/ FromThread

SpecConvert == InitConvert /\ [][NextConvert]_vars

\* ------------------------------------ thread_detector.py: load_messages
\* Longest list of records in an export.
MaxRecords == 3

\* The characters int() reads as decimal digits, in order of value.
Digits == <<"0", "1", "2", "3", "4", "5", "6", "7", "8", "9">>

IsDigit(c) == \E d \in 1..Len(Digits) : Digits[d] = c

DigitValue(c) == (CHOOSE d \in 1..Len(Digits) : Digits[d] = c) - 1

\* A date_unixtime string, as the sequence of its characters.
DateStrings == { <<"5">>, <<"0", "5">>, <<"1", "0">>, <<"a">> }

\* int(s) succeeds on a non-empty string of decimal digits (signs, blanks
\* and underscores are not modelled) and raises ValueError otherwise.
IntParses(s) == s # <<>> /\ \A k \in 1..Len(s) : IsDigit(s[k])

RECURSIVE IntOfPrefix(_, _)
IntOfPrefix(s, n) ==
    IF n = 0 THEN 0 ELSE 10 * IntOfPrefix(s, n - 1) + DigitValue(s[n])

\* int(self.date_unixtime) of TelegramMessage.to_timestamp, models.py
\* line 107, for a string that parses.
py_int(s) == IntOfPrefix(s, Len(s))

\* A record of data["messages"]: whether TelegramMessage(**msg_data)
\* validates it (id, type, date and date_unixtime present and of their
\* types: date_unixtime is declared str, so any string validates), and its
\* date_unixtime.
ExportRecord == [validates : BOOLEAN, date_unixtime : DateStrings]

ExportLists == UNION { [1..n -> ExportRecord] : n \in 0..MaxRecords }

\* The TelegramMessage built from record k of the export.
ParsedMessage(k) ==
    [export_index |-> k, date_unixtime |-> export_records[k].date_unixtime]

\* The sort key of line 98, lambda m: m.to_timestamp().
SortKey(m) == py_int(m.date_unixtime)

\* One step of a stable sort: m goes after every message whose key is not
\* larger, so equal keys keep the order they arrived in.
RECURSIVE InsertByKey(_, _)
InsertByKey(sorted, m) ==
    IF sorted = <<>> THEN <<m>>
    ELSE IF SortKey(sorted[Len(sorted)]) <= SortKey(m) THEN Append(sorted, m)
    ELSE Append(InsertByKey(SubSeq(sorted, 1, Len(sorted) - 1), m),
                sorted[Len(sorted)])

\* list.sort(key=...), line 98: a stable sort by the key.
RECURSIVE SortPrefix(_, _)
SortPrefix(msgs, n) ==
    IF n = 0 THEN <<>> ELSE InsertByKey(SortPrefix(msgs, n - 1), msgs[n])

sort_by_timestamp(msgs) == SortPrefix(msgs, Len(msgs))

\* load_messages is called on a default ThreadDetector with an export file.
InitLoad ==
    /\ DetectorIdle /\ IngestIdle /\ FilterIdle /\ ConvertIdle /\ UploadIdle /\ ConcurrentIdle
    /\ IncrementalIdle /\ ReleaseIdle /\ SearchIdle
    /\ export_records \in ExportLists
    /\ loaded = <<>>
    /\ skipped = 0
    /\ record_index = 1
    /\ lpc = "parse"

\* Lines 83-87: the record validates and is appended.
LoadParseAppend ==
    /\ lpc = "parse"
    /\ UNCHANGED <<ingestVars, filterVars, convertVars, uploadVars, concurrentVars, incrementalVars, releaseVars, searchVars>>
    /\ record_index <= Len(export_records)
    /\ export_records[record_index].validates
    /\ loaded' = Append(loaded, ParsedMessage(record_index))
    /\ record_index' = record_index + 1
    /\ UNCHANGED <<export_records, skipped, lpc, detectorVars>>

\* Lines 88-91: the record does not validate and is counted as skipped.
LoadParseSkip ==
    /\ lpc = "parse"
    /\ UNCHANGED <<ingestVars, filterVars, convertVars, uploadVars, concurrentVars, incrementalVars, releaseVars, searchVars>>
    /\ record_index <= Len(export_records)
    /\ ~export_records[record_index].validates
    /\ skipped' = skipped + 1
    /\ record_index' = record_index + 1
    /\ UNCHANGED <<export_records, loaded, lpc, detectorVars>>

\* Lines 98-101: every key is computed, the list is sorted, the count is
\* stored and the list is returned.
LoadSort ==
    /\ lpc = "parse"
    /\ UNCHANGED <<ingestVars, filterVars, convertVars, uploadVars, concurrentVars, incrementalVars, releaseVars, searchVars>>
    /\ record_index > Len(export_records)
    /\ \A k \in 1..Len(loaded) : IntParses(loaded[k].date_unixtime)
    /\ loaded' = sort_by_timestamp(loaded)
    /\ stats' = [stats EXCEPT !.total_messages = Len(loaded)]
    /\ lpc' = "returned"
    /\ UNCHANGED <<export_records, skipped, record_index>>
    /\ UNCHANGED <<time_window, max_messages, messages, reply_map, threads,
                   current_thread_messages, next_index, documents, pc>>

\* Line 98, outside every try: the key of a message whose date_unixtime is
\* not a number raises ValueError; the list is left as it was and the call
\* ends with the exception.
LoadSortRaises ==
    /\ lpc = "parse"
    /\ UNCHANGED <<ingestVars, filterVars, convertVars, uploadVars, concurrentVars, incrementalVars, releaseVars, searchVars>>
    /\ record_index > Len(export_records)
    /\ \E k \in 1..Len(loaded) : ~IntParses(loaded[k].date_unixtime)
    /\ lpc' = "raised"
    /\ UNCHANGED <<export_records, loaded, skipped, record_index, detectorVars>>

NextLoad ==
    \/ LoadParseAppend
    \/ LoadParseSkip
    \/ LoadSort
    \/ LoadSortRaises

SpecLoad == InitLoad /\ [][NextLoad]_vars

\* ------------------------------------------ api.py: upload_telegram_export
\* Requests sent to /upload in one behaviour.
MaxUploads == 2

\* File names as sequences of characters.
JsonSuffix == <<".", "j", "s", "o", "n">>

Filenames ==
    { <<>>,
      <<"a">> \o JsonSuffix,
      JsonSuffix,
      <<"a", ".", "t", "x", "t">>,
      <<"a", ".", "J", "S", "O", "N">> }

\* str.endswith.
endswith(name, suffix) ==
    /\ Len(name) >= Len(suffix)
    /\ SubSeq(name, Len(name) - Len(suffix) + 1, Len(name)) = suffix

\* A message of an export: its id and its '_source_chat' key ("" when the
\* key is absent).
ExportMessage(id, chat) == [id |-> id, source_chat |-> chat]

\* A JSON value: a list, or an object with or without a 'messages' list.
JsonList == [type |-> "list", has_messages |-> FALSE, messages |-> <<>>,
             multi_chat |-> FALSE]

JsonObject(has, msgs, multi) ==
    [type |-> "dict", has_messages |-> has, messages |-> msgs,
     multi_chat |-> multi]

JsonValues ==
    { JsonList, JsonObject(FALSE, <<>>, FALSE), JsonObject(TRUE, <<>>, FALSE),
      JsonObject(TRUE, <<ExportMessage(1, "")>>, FALSE) }

\* The bytes of an uploaded or stored file: bytes that are not UTF-8 text,
\* text that is not JSON, or the JSON text of a value.
FileBodies ==
    { [kind |-> "undecodable", value |-> JsonList],
      [kind |-> "malformed", value |-> JsonList] } \cup
    { [kind |-> "json", value |-> v] : v \in JsonValues }

\* json.loads(content) on bytes: the bytes are decoded first, which raises
\* UnicodeDecodeError (a ValueError that is not a JSONDecodeError) when they
\* are not text; text that is not JSON raises JSONDecodeError.
json_loads(body) ==
    CASE body.kind = "undecodable" -> [raised |-> "UnicodeDecodeError",
                                       value |-> JsonList]
      [] body.kind = "malformed"   -> [raised |-> "JSONDecodeError",
                                       value |-> JsonList]
      [] OTHER                     -> [raised |-> "", value |-> body.value]

\* json.dump(final_data), the file body of a value.
json_dump(value) == [kind |-> "json", value |-> value]

ChatNames == {"", "work"}

UploadRequests ==
    [filename : Filenames, content : FileBodies, merge : BOOLEAN,
     chat_name : ChatNames]

\* A file of the service directory: absent, or present with a body.
NoFile == [exists |-> FALSE, body |-> [kind |-> "malformed", value |-> JsonList]]

FileWith(body) == [exists |-> TRUE, body |-> body]

\* Lines 354-357 and 375-379: '_source_chat' is set on every message when a
\* chat_name is given.
TagMessages(msgs, chat_name) ==
    IF chat_name # ""
    THEN [k \in 1..Len(msgs) |-> [msgs[k] EXCEPT !.source_chat = chat_name]]
    ELSE msgs

\* An error response: HTTPException(status_code, ErrorResponse(error_code)).
ErrorResponse(status_code, error_code) ==
    [status_code |-> status_code, error_code |-> error_code, mode |-> "",
     total_messages |-> 0]

\* The 200 response, lines 405-412.
UploadResponse(mode, total_messages) ==
    [status_code |-> 200, error_code |-> 0, mode |-> mode,
     total_messages |-> total_messages]

\* What one call leaves behind: its response and the two files.
Outcome(resp, target, backup) ==
    [response |-> resp, target |-> target, backup |-> backup]

\* Lines 384-392: the backup copy of an existing result.json, then the write.
WriteFinal(final_data, mode, target, backup) ==
    Outcome(UploadResponse(mode, Len(final_data.messages)),
            FileWith(json_dump(final_data)),
            IF target.exists THEN target ELSE backup)

\* upload_telegram_export for an authorized request, lines 301-425.
upload_telegram_export(req, target, backup) ==
    LET parsed    == json_loads(req.content)
        json_data == parsed.value
        existing  == json_loads(target.body)
    IN  IF req.filename = <<>> \/ ~endswith(req.filename, JsonSuffix)
        THEN Outcome(ErrorResponse(400, 4001), target, backup)
        ELSE IF parsed.raised = "JSONDecodeError"
        THEN Outcome(ErrorResponse(400, 4002), target, backup)
        ELSE IF parsed.raised # ""
        THEN Outcome(ErrorResponse(500, 5003), target, backup)
        ELSE IF json_data.type # "dict" \/ ~json_data.has_messages
        THEN Outcome(ErrorResponse(400, 4003), target, backup)
        ELSE IF req.merge /\ target.exists
        THEN IF existing.raised # ""
             THEN Outcome(ErrorResponse(500, 5004), target, backup)
             ELSE IF existing.value.type # "dict"
             THEN Outcome(ErrorResponse(500, 5003), target, backup)
             ELSE WriteFinal(
                    JsonObject(TRUE,
                               existing.value.messages \o
                                   TagMessages(json_data.messages, req.chat_name),
                               TRUE),
                    "merge", target, backup)
        ELSE WriteFinal(
               [json_data EXCEPT
                  !.messages = TagMessages(json_data.messages, req.chat_name)],
               "replace", target, backup)

\* The service directory before the first upload: no result.json, one that
\* holds an export, or one that cannot be read as JSON; no backup yet.
InitUpload ==
    /\ DetectorIdle /\ IngestIdle /\ FilterIdle /\ ConvertIdle /\ LoadIdle /\ ConcurrentIdle
    /\ IncrementalIdle /\ ReleaseIdle /\ SearchIdle
    /\ upload = PyNone
    /\ target_file \in
         { NoFile,
           FileWith(json_dump(JsonObject(TRUE, <<ExportMessage(2, "")>>, FALSE))),
           FileWith([kind |-> "malformed", value |-> JsonList]) }
    /\ backup_file = NoFile
    /\ response = PyNone
    /\ uploads = 0
    /\ upc = "waiting"

\* A client posts a file to /upload.
UploadReceive ==
    /\ upc = "waiting"
    /\ UNCHANGED <<detectorVars, ingestVars, filterVars, convertVars, loadVars, concurrentVars, incrementalVars, releaseVars, searchVars>>
    /\ uploads < MaxUploads
    /\ upload' \in UploadRequests
    /\ uploads' = uploads + 1
    /\ upc' = "received"
    /\ UNCHANGED <<target_file, backup_file, response>>

\* The handler runs to its response.
UploadRespond ==
    /\ upc = "received"
    /\ UNCHANGED <<detectorVars, ingestVars, filterVars, convertVars, loadVars, concurrentVars, incrementalVars, releaseVars, searchVars>>
    /\ LET out == upload_telegram_export(upload, target_file, backup_file)
       IN  /\ response' = out.response
           /\ target_file' = out.target
           /\ backup_file' = out.backup
    /\ upload' = PyNone
    /\ upc' = "waiting"
    /\ UNCHANGED uploads

NextUpload ==
    \/ UploadReceive
    \/ UploadRespond

SpecUpload == InitUpload /\ [][NextUpload]_vars

\* ------------------------------- ingestion.py: two runs at the same time
\* A batch write that leaves out thread ids the collection already holds.
batch_write_upsert(stored, batch) ==
    stored \o SeqThreadIds(SelectSeq(batch, LAMBDA doc :
                 \A k \in 1..Len(stored) : stored[k] # doc.thread_id))

\* The batch write appending every object, lines 232-239 (uuid=None: the
\* store generates a new uuid for every object).
batch_write(stored, batch) == stored \o SeqThreadIds(batch)

\* Batch sizes of the interleaved runs.
ConcurrentBatchSizes == {1, 2}

\* Two runs of ingest_documents(documents, skip_existing=True) are started
\* on the documents of one export; the collection is empty or holds the
\* first document.
InitConcurrent ==
    /\ DetectorIdle /\ IngestIdle /\ FilterIdle /\ ConvertIdle /\ LoadIdle
    /\ UploadIdle /\ IncrementalIdle /\ ReleaseIdle /\ SearchIdle
    /\ \E n \in 1..MaxDocs :
         export_docs = [k \in 1..n |-> [thread_id |-> k, convertible |-> TRUE]]
    /\ shared_store \in {<<>>, <<1>>}
    /\ run_batch_size \in ConcurrentBatchSizes
    /\ run_existing_ids = [p \in Runs |-> {}]
    /\ run_docs = [p \in Runs |-> <<>>]
    /\ run_i = [p \in Runs |-> 0]
    /\ run_pc = [p \in Runs |-> "start"]
    /\ read_before_write = FALSE

\* Run p, lines 256-274: it lists the existing ids, filters its documents,
\* and returns at once when none is left.
ConcurrentRead(p) ==
    /\ run_pc[p] = "start"
    /\ UNCHANGED <<detectorVars, ingestVars, filterVars, convertVars, loadVars, uploadVars, incrementalVars, releaseVars, searchVars>>
    /\ LET ids  == { shared_store[k] : k \in 1..Len(shared_store) }
           kept == IF ids # {}
                   THEN SelectSeq(export_docs,
                                  LAMBDA doc : doc.thread_id \notin ids)
                   ELSE export_docs
       IN  /\ run_existing_ids' = [run_existing_ids EXCEPT ![p] = ids]
           /\ run_docs' = [run_docs EXCEPT ![p] = kept]
           /\ run_pc' = [run_pc EXCEPT
                           ![p] = IF kept = <<>> THEN "returned" ELSE "batches"]
    /\ read_before_write' =
          \A q \in Runs \ {p} : run_pc[q] = "batches" /\ run_i[q] = 0
    /\ UNCHANGED <<shared_store, export_docs, run_batch_size, run_i>>

\* Run p, lines 294-314 and 232-239: one batch is written.
ConcurrentBatch(p) ==
    /\ run_pc[p] = "batches"
    /\ UNCHANGED <<detectorVars, ingestVars, filterVars, convertVars, loadVars, uploadVars, incrementalVars, releaseVars, searchVars>>
    /\ run_i[p] < Len(run_docs[p])
    /\ shared_store' =
          batch_write(shared_store,
                      batch_slice(run_docs[p], run_i[p], run_batch_size))
    /\ run_i' = [run_i EXCEPT ![p] = @ + run_batch_size]
    /\ UNCHANGED <<export_docs, run_batch_size, run_existing_ids, run_docs,
                   run_pc, read_before_write>>

\* Run p: the batch loop has ended and nothing failed; ingest_documents
\* returns.
ConcurrentReturn(p) ==
    /\ run_pc[p] = "batches"
    /\ UNCHANGED <<detectorVars, ingestVars, filterVars, convertVars, loadVars, uploadVars, incrementalVars, releaseVars, searchVars>>
    /\ run_i[p] >= Len(run_docs[p])
    /\ run_pc' = [run_pc EXCEPT ![p] = "returned"]
    /\ UNCHANGED <<shared_store, export_docs, run_batch_size, run_existing_ids,
                   run_docs, run_i, read_before_write>>

NextConcurrent ==
    \E p \in Runs :
        \/ ConcurrentRead(p)
        \/ ConcurrentBatch(p)
        \/ ConcurrentReturn(p)

\* Two ingestion runs over the same export, their steps interleaved.
SpecConcurrent == InitConcurrent /\ [][NextConcurrent]_vars

\* --------------------------- run_ingestion: a full run, then an incremental
\* detect_threads, lines 197-213, from message k on: ths holds the message
\* lists of the threads sealed so far, cur is current_thread_messages.
RECURSIVE DetectFrom(_, _, _, _, _)
DetectFrom(msgs, rmap, k, ths, cur) ==
    LET sealed == IF cur # <<>> THEN Append(ths, cur) ELSE ths
    IN  IF k > Len(msgs)
        THEN sealed
        ELSE IF should_continue_thread(cur, msgs[k], rmap)
             THEN DetectFrom(msgs, rmap, k + 1, ths, Append(cur, msgs[k]))
             ELSE DetectFrom(msgs, rmap, k + 1, sealed, <<msgs[k]>>)

\* ThreadDetector.detect_threads as a function of its input: the message
\* lists of the threads, in order.
detect_threads(msgs) == DetectFrom(msgs, BuildReplyMap(msgs), 1, <<>>, <<>>)

\* date_unixtime values of the exported messages: 100 s apart (one thread)
\* or more than the time window apart.
IncrementalTimes == {100, 200, 600}

\* The exported messages: date is the ISO text of the instant (a str,
\* models.py line 44) or the empty string; the id grows with the time.
IncrementalMessages ==
    { [id |-> t \div 100, reply_to_message_id |-> 0, type |-> "message",
       from_name |-> n, actor |-> "", date_unixtime |-> t,
       date |-> PyStr(d)] :
        t \in IncrementalTimes, n \in {"Alice", "Bob"}, d \in {0, 1} }

\* Exports whose messages are in strictly growing time order.
IsExport(msgs) ==
    \A k \in 1..(Len(msgs) - 1) :
        msgs[k].date_unixtime < msgs[k + 1].date_unixtime

\* prepare_documents on detected threads, none failing: thread_id and
\* timestamp (models.py line 342: thread.start_time) of each document, and
\* the messages its content is formatted from.
ThreadDocuments(ths) ==
    [ k \in 1..Len(ths) |->
        [ thread_id |-> ThreadIdOf(to_timestamp(ths[k][1]), ths[k][1].id),
          timestamp |-> to_timestamp(ths[k][1]),
          messages  |-> ths[k] ] ]

\* ingest_documents with skip_existing=True and every write succeeding,
\* lines 259-274 and 294-314: the collection afterwards.
ingest_documents(stored, docs) ==
    LET existing_ids == { stored[k].thread_id : k \in 1..Len(stored) }
    IN  stored \o (IF existing_ids # {}
                   THEN SelectSeq(docs, LAMBDA doc :
                                    doc.thread_id \notin existing_ids)
                   ELSE docs)

\* get_latest_timestamp, lines 149-172: the greatest timestamp stored; None
\* when the collection is empty, and when the query or the parsing of its
\* result raises (170-172).
get_latest_timestamp(stored, raises) ==
    IF stored = <<>> \/ raises THEN PyNone
    ELSE PyDatetime(Max({ stored[k].timestamp : k \in 1..Len(stored) }))

\* filter_new_threads, lines 188-201, on message lists: the threads kept, or
\* "TypeError" when a comparison raises.
filter_new_threads(ths, since) ==
    IF \E k \in 1..Len(ths) :
           /\ has_new_messages([messages |-> ths[k]], since) = "TypeError"
           /\ \A j \in 1..(k - 1) :
                  has_new_messages([messages |-> ths[j]], since) # "TypeError"
    THEN "TypeError"
    ELSE SelectSeq(ths, LAMBDA th :
                     has_new_messages([messages |-> th], since) = "True")

\* The detector of process_telegram_export (default settings), an empty
\* collection, and the export of the first run.
InitIncremental ==
    /\ time_window = InitTimeWindow(0)
    /\ max_messages = InitMaxMessages(0, DefaultMaxMessages)
    /\ messages = <<>>
    /\ reply_map = <<>>
    /\ threads = <<>>
    /\ current_thread_messages = <<>>
    /\ next_index = 0
    /\ stats = InitStats
    /\ documents = <<>>
    /\ pc = "idle"
    /\ IngestIdle /\ FilterIdle /\ ConvertIdle /\ LoadIdle /\ UploadIdle
    /\ ConcurrentIdle /\ ReleaseIdle /\ SearchIdle
    /\ \E n \in 0..(MaxLen - 1) :
         \E msgs \in [1..n -> IncrementalMessages] :
            /\ IsExport(msgs)
            /\ inc_export = msgs
    /\ inc_store = <<>>
    /\ inc_latest = PyNone
    /\ inc_query_failed = FALSE
    /\ inc_threads = <<>>
    /\ inc_pc = "start"

\* run_ingestion(json_path), lines 455-491, on an empty collection: threads
\* are detected, converted and ingested.
FullRun ==
    /\ inc_pc = "start"
    /\ inc_threads' = detect_threads(inc_export)
    /\ inc_store' = ingest_documents(inc_store, ThreadDocuments(inc_threads'))
    /\ inc_pc' = "full_done"
    /\ UNCHANGED <<inc_export, inc_latest, inc_query_failed>>
    /\ UNCHANGED <<detectorVars, ingestVars, filterVars, convertVars, loadVars, uploadVars, concurrentVars, releaseVars, searchVars>>

\* The chat goes on: the next export holds the same messages followed by
\* later ones.
ExtendExport ==
    /\ inc_pc = "full_done"
    /\ \E n \in 1..(MaxLen - Len(inc_export)) :
         \E more \in [1..n -> IncrementalMessages] :
            /\ IsExport(inc_export \o more)
            /\ inc_export' = inc_export \o more
    /\ inc_pc' = "extended"
    /\ UNCHANGED <<inc_store, inc_latest, inc_query_failed, inc_threads>>
    /\ UNCHANGED <<detectorVars, ingestVars, filterVars, convertVars, loadVars, uploadVars, concurrentVars, releaseVars, searchVars>>

\* run_ingestion(json_path, incremental=True), lines 455-478: the threads
\* of the longer export are detected and filtered by the latest timestamp;
\* the run returns when none is left, and ends with the error when the
\* filter raises (503-505).
IncrementalFilter ==
    /\ inc_pc = "extended"
    /\ \E raises \in BOOLEAN :
         /\ inc_query_failed' = raises
         /\ inc_latest' = get_latest_timestamp(inc_store, raises)
    /\ LET ths == detect_threads(inc_export)
           new == IF Truthy(inc_latest')
                  THEN filter_new_threads(ths, inc_latest')
                  ELSE ths
       IN  IF new = "TypeError"
           THEN inc_pc' = "raised" /\ inc_threads' = ths
           ELSE /\ inc_threads' = new
                /\ inc_pc' = IF Truthy(inc_latest') /\ Len(new) = 0
                             THEN "done" ELSE "filtered"
    /\ UNCHANGED <<inc_export, inc_store>>
    /\ UNCHANGED <<detectorVars, ingestVars, filterVars, convertVars, loadVars, uploadVars, concurrentVars, releaseVars, searchVars>>

\* run_ingestion, lines 480-491: the threads left are converted and
\* ingested with skip_existing=True.
IncrementalIngest ==
    /\ inc_pc = "filtered"
    /\ inc_store' = ingest_documents(inc_store, ThreadDocuments(inc_threads))
    /\ inc_pc' = "done"
    /\ UNCHANGED <<inc_export, inc_latest, inc_query_failed, inc_threads>>
    /\ UNCHANGED <<detectorVars, ingestVars, filterVars, convertVars, loadVars, uploadVars, concurrentVars, releaseVars, searchVars>>

NextIncremental ==
    \/ FullRun
    \/ ExtendExport
    \/ IncrementalFilter
    \/ IncrementalIngest

\* A full run and then an incremental run on the extended export.
SpecIncremental == InitIncremental /\ [][NextIncremental]_vars

\* ------------------------------------ run_ingestion and its connection
\* Objects in the collection before the call, at most.
MaxObjects == 1

\* Threads of the export: TRUE for a thread holding a message with a
\* non-empty date.
ReleaseThreadLists == UNION { [1..n -> BOOLEAN] : n \in 0..MaxThreads }

\* run_ingestion(json_path, force_reindex, verify, incremental) is called;
\* the collection exists or not and holds some objects.
InitRelease ==
    /\ DetectorIdle /\ IngestIdle /\ FilterIdle /\ ConvertIdle /\ LoadIdle
    /\ UploadIdle /\ ConcurrentIdle /\ IncrementalIdle /\ SearchIdle
    /\ client_opened = 0
    /\ client_closed = 0
    /\ rel_flags \in [force_reindex : BOOLEAN, verify : BOOLEAN,
                       incremental : BOOLEAN]
    /\ rel_collection \in BOOLEAN
    /\ rel_objects \in 0..MaxObjects
    /\ rel_objects > 0 => rel_collection
    /\ rel_threads = <<>>
    /\ rel_written = 0
    /\ rel_error = "none"
    /\ rel_reraised = "none"
    /\ rel_outcome = "none"
    /\ rpc = "connect"

\* Step 1, lines 435-440, before the try: the connection is opened, or
\* connect_to_local raises and the call ends with nothing opened.
ReleaseConnect ==
    /\ rpc = "connect"
    /\ \E reachable \in BOOLEAN :
         IF reachable
         THEN /\ client_opened' = client_opened + 1
              /\ rpc' = "schema"
              /\ UNCHANGED rel_reraised
         ELSE /\ rel_reraised' = "connect"
              /\ rpc' = "raised"
              /\ UNCHANGED client_opened
    /\ UNCHANGED <<client_closed, rel_flags, rel_collection, rel_objects,
                   rel_threads, rel_written, rel_error, rel_outcome>>
    /\ UNCHANGED <<detectorVars, ingestVars, filterVars, convertVars, loadVars, uploadVars, concurrentVars, incrementalVars, searchVars>>

\* Step 2, lines 443-451: the collection is created when it is missing; or
\* an exception leaves the try block.
ReleaseSchema ==
    /\ rpc = "schema"
    /\ \E raises \in BOOLEAN, accepts \in BOOLEAN :
         IF raises
         THEN /\ rel_error' = "schema"
              /\ rpc' = "except"
              /\ UNCHANGED rel_collection
         ELSE /\ rel_collection' =
                    verify_schema(rel_collection, accepts).collection
              /\ rpc' = "load"
              /\ UNCHANGED rel_error
    /\ UNCHANGED <<client_opened, client_closed, rel_flags, rel_objects,
                   rel_threads, rel_written, rel_reraised, rel_outcome>>
    /\ UNCHANGED <<detectorVars, ingestVars, filterVars, convertVars, loadVars, uploadVars, concurrentVars, incrementalVars, searchVars>>

\* Step 3, lines 455-459: process_telegram_export gives the threads, or
\* raises (the file cannot be read).
ReleaseLoad ==
    /\ rpc = "load"
    /\ \E raises \in BOOLEAN, ths \in ReleaseThreadLists :
         IF raises
         THEN /\ rel_error' = "load"
              /\ rpc' = "except"
              /\ UNCHANGED rel_threads
         ELSE /\ rel_threads' = ths
              /\ rpc' = IF rel_flags.incremental THEN "filter" ELSE "ingest"
              /\ UNCHANGED rel_error
    /\ UNCHANGED <<client_opened, client_closed, rel_flags, rel_collection,
                   rel_objects, rel_written, rel_reraised, rel_outcome>>
    /\ UNCHANGED <<detectorVars, ingestVars, filterVars, convertVars, loadVars, uploadVars, concurrentVars, incrementalVars, searchVars>>

\* Step 4a, lines 462-478: with no latest timestamp the threads are kept;
\* with one, filter_new_threads raises on the first dated message (line
\* 194), and otherwise keeps no thread and the call returns.
ReleaseFilter ==
    /\ rpc = "filter"
    /\ \E query_raises \in BOOLEAN :
         LET latest == rel_collection /\ rel_objects > 0 /\ ~query_raises
         IN  IF ~latest
             THEN /\ rpc' = "ingest"
                  /\ UNCHANGED <<rel_threads, rel_error, rel_outcome>>
             ELSE IF \E k \in 1..Len(rel_threads) : rel_threads[k]
             THEN /\ rel_error' = "filter"
                  /\ rpc' = "except"
                  /\ UNCHANGED <<rel_threads, rel_outcome>>
             ELSE /\ rel_threads' = <<>>
                  /\ rel_outcome' = "early_return"
                  /\ rpc' = "finally"
                  /\ UNCHANGED rel_error
    /\ UNCHANGED <<client_opened, client_closed, rel_flags, rel_collection,
                   rel_objects, rel_written, rel_reraised>>
    /\ UNCHANGED <<detectorVars, ingestVars, filterVars, convertVars, loadVars, uploadVars, concurrentVars, incrementalVars, searchVars>>

\* Steps 4 to 7, lines 480-501: the documents are prepared and ingested
\* (an object per document written, at most), statistics are shown; or an
\* exception leaves ingest_documents (ingest_batch line 212) after some
\* objects were written.
ReleaseIngest ==
    /\ rpc = "ingest"
    /\ \E raises \in BOOLEAN, written \in 0..Len(rel_threads) :
         /\ rel_collection \/ written = 0
         /\ rel_written' = written
         /\ rel_objects' = rel_objects + written
         /\ IF raises
            THEN /\ rel_error' = "ingest"
                 /\ rpc' = "except"
                 /\ UNCHANGED rel_outcome
            ELSE /\ rel_outcome' = "complete"
                 /\ rpc' = "finally"
                 /\ UNCHANGED rel_error
    /\ UNCHANGED <<client_opened, client_closed, rel_flags, rel_collection,
                   rel_threads, rel_reraised>>
    /\ UNCHANGED <<detectorVars, ingestVars, filterVars, convertVars, loadVars, uploadVars, concurrentVars, incrementalVars, searchVars>>

\* Lines 503-505: the exception is printed and raised again.
ReleaseExcept ==
    /\ rpc = "except"
    /\ rel_reraised' = rel_error
    /\ rpc' = "finally"
    /\ UNCHANGED <<client_opened, client_closed, rel_flags, rel_collection,
                   rel_objects, rel_threads, rel_written, rel_error,
                   rel_outcome>>
    /\ UNCHANGED <<detectorVars, ingestVars, filterVars, convertVars, loadVars, uploadVars, concurrentVars, incrementalVars, searchVars>>

\* A finally block that leaves the connection open after an early return.
ReleaseFinallySkipsEarlyReturn ==
    /\ rpc = "finally"
    /\ client_closed' = IF rel_outcome = "early_return"
                        THEN client_closed ELSE client_closed + 1
    /\ rpc' = IF rel_reraised = "none" THEN "returned" ELSE "raised"
    /\ UNCHANGED <<client_opened, rel_flags, rel_collection, rel_objects,
                   rel_threads, rel_written, rel_error, rel_reraised,
                   rel_outcome>>
    /\ UNCHANGED <<detectorVars, ingestVars, filterVars, convertVars, loadVars, uploadVars, concurrentVars, incrementalVars, searchVars>>

\* Lines 507-509: the client is closed, and the call returns or ends with
\* the exception.
ReleaseFinally ==
    /\ rpc = "finally"
    /\ client_closed' = client_closed + 1
    /\ rpc' = IF rel_reraised = "none" THEN "returned" ELSE "raised"
    /\ UNCHANGED <<client_opened, rel_flags, rel_collection, rel_objects,
                   rel_threads, rel_written, rel_error, rel_reraised,
                   rel_outcome>>
    /\ UNCHANGED <<detectorVars, ingestVars, filterVars, convertVars, loadVars, uploadVars, concurrentVars, incrementalVars, searchVars>>

NextRelease ==
    \/ ReleaseConnect
    \/ ReleaseSchema
    \/ ReleaseLoad
    \/ ReleaseFilter
    \/ ReleaseIngest
    \/ ReleaseExcept
    \/ ReleaseFinally

\* One call of run_ingestion.
SpecRelease == InitRelease /\ [][NextRelease]_vars

\* ------------------------------------------------ api.py: search_weaviate
\* Bound on the number of hits the store returns.
MaxHits == 3

\* Scores of the hits and the thresholds, in tenths.
Scores == {0, 5, 7, 9}

\* metadata.score of a hit: a float, None, or no such attribute.
HitScores ==
    { [type |-> "float", value |-> s] : s \in Scores }
    \cup { PyNone, [type |-> "absent", value |-> 0] }

\* RetrievalSetting.top_k, ge=1 (le=20), two of its values.
Limits == {1, 2}

\* RetrievalSetting.score_threshold, ge=0.0, le=1.0, in tenths.
Thresholds == {0, 5, 10}

\* Line 191: the score read from the metadata, 0.0 when the attribute is
\* absent.
hit_score(hit) ==
    IF hit.score.type = "absent" THEN [type |-> "float", value |-> 0]
    ELSE hit.score

\* A threshold test that lets every score pass.
passes_any(score, threshold) == TRUE

\* Line 194: score >= score_threshold of two floats.
passes_threshold(score, threshold) == score.value >= threshold

\* Lines 188-215: the chunks of the hits from k on, appended to acc;
\* "TypeError" when a score is None (line 194 compares it with a float).
RECURSIVE ConvertFrom(_, _, _, _)
ConvertFrom(hits, threshold, k, acc) ==
    IF k > Len(hits) THEN acc
    ELSE LET score == hit_score(hits[k])
         IN  IF score.type # "float" THEN "TypeError"
             ELSE IF passes_threshold(score, threshold)
             THEN ConvertFrom(hits, threshold, k + 1,
                              Append(acc, [thread_id |-> hits[k].thread_id,
                                           score |-> score.value]))
             ELSE ConvertFrom(hits, threshold, k + 1, acc)

\* One chunk put into a list sorted by falling score, behind the chunks of
\* the same score (list.sort is stable, with reverse=True as well).
InsertByScore(sorted, chunk) ==
    LET ahead == { k \in 1..Len(sorted) : sorted[k].score >= chunk.score }
        n == Cardinality(ahead)
    IN  SubSeq(sorted, 1, n) \o <<chunk>> \o SubSeq(sorted, n + 1, Len(sorted))

RECURSIVE SortChunksPrefix(_, _)
SortChunksPrefix(cs, n) ==
    IF n = 0 THEN <<>>
    ELSE InsertByScore(SortChunksPrefix(cs, n - 1), cs[n])

\* Line 218: chunks.sort(key=lambda x: x.score, reverse=True).
sort_by_score(cs) == SortChunksPrefix(cs, Len(cs))

\* search_weaviate(query, limit, score_threshold) is called.
InitSearch ==
    /\ DetectorIdle /\ IngestIdle /\ FilterIdle /\ ConvertIdle /\ LoadIdle
    /\ UploadIdle /\ ConcurrentIdle /\ IncrementalIdle /\ ReleaseIdle
    /\ search_limit \in Limits
    /\ score_threshold \in Thresholds
    /\ search_hits = <<>>
    /\ chunks = <<>>
    /\ search_opened = 0
    /\ search_closed = 0
    /\ spc = "connect"

\* Lines 169-173, before the try: the connection is opened, or the call
\* ends with the error of connect_to_local.
SearchConnect ==
    /\ spc = "connect"
    /\ \E reachable \in BOOLEAN :
         IF reachable
         THEN search_opened' = search_opened + 1 /\ spc' = "query"
         ELSE search_opened' = search_opened /\ spc' = "raised"
    /\ UNCHANGED <<search_limit, score_threshold, search_hits, chunks,
                   search_closed>>
    /\ UNCHANGED <<detectorVars, ingestVars, filterVars, convertVars, loadVars, uploadVars, concurrentVars, incrementalVars, releaseVars>>

\* Lines 176-185: the hybrid query with limit * 2 returns that many hits at
\* most, in the store's order, or raises.
SearchQuery ==
    /\ spc = "query"
    /\ \E raises \in BOOLEAN :
         IF raises
         THEN search_hits' = search_hits /\ spc' = "finally_raise"
         ELSE /\ \E n \in 0..Min(search_limit * 2, MaxHits) :
                   \E scores \in [1..n -> HitScores] :
                      search_hits' = [k \in 1..n |-> [thread_id |-> k,
                                                      score |-> scores[k]]]
              /\ spc' = "convert"
    /\ UNCHANGED <<search_limit, score_threshold, chunks, search_opened,
                   search_closed>>
    /\ UNCHANGED <<detectorVars, ingestVars, filterVars, convertVars, loadVars, uploadVars, concurrentVars, incrementalVars, releaseVars>>

\* Lines 187-219: the hits at or over the threshold become chunks, the
\* chunks are sorted and the first limit of them are the result.
SearchConvert ==
    /\ spc = "convert"
    /\ LET converted == ConvertFrom(search_hits, score_threshold, 1, <<>>)
       IN  IF converted = "TypeError"
           THEN chunks' = chunks /\ spc' = "finally_raise"
           ELSE /\ chunks' = SubSeq(sort_by_score(converted), 1,
                                    Min(search_limit, Len(converted)))
                /\ spc' = "finally_return"
    /\ UNCHANGED <<search_limit, score_threshold, search_hits, search_opened,
                   search_closed>>
    /\ UNCHANGED <<detectorVars, ingestVars, filterVars, convertVars, loadVars, uploadVars, concurrentVars, incrementalVars, releaseVars>>

\* Lines 221-222: finally, the client is closed.
SearchFinally ==
    /\ spc \in {"finally_return", "finally_raise"}
    /\ search_closed' = search_closed + 1
    /\ spc' = IF spc = "finally_return" THEN "returned" ELSE "raised"
    /\ UNCHANGED <<search_limit, score_threshold, search_hits, chunks,
                   search_opened>>
    /\ UNCHANGED <<detectorVars, ingestVars, filterVars, convertVars, loadVars, uploadVars, concurrentVars, incrementalVars, releaseVars>>

NextSearch ==
    \/ SearchConnect
    \/ SearchQuery
    \/ SearchConvert
    \/ SearchFinally

\* One call of search_weaviate.
SpecSearch == InitSearch /\ [][NextSearch]_vars

Returned == pc \in {"done", "prepared"}

IsSorted(msgs) ==
    \A i, j \in 1..Len(msgs) : i < j => to_timestamp(msgs[i]) <= to_timestamp(msgs[j])

RECURSIVE Flatten(_)
Flatten(ths) ==
    IF ths = <<>> THEN <<>>
    ELSE Flatten(SubSeq(ths, 1, Len(ths) - 1)) \o ths[Len(ths)].messages

RECURSIVE CountBefore(_, _)
\* The number of messages in the threads before thread k.
CountBefore(ths, k) ==
    IF k <= 1 THEN 0 ELSE CountBefore(ths, k - 1) + ths[k - 1].message_count

\* The output thread that holds the message at position p of the input.
ThreadOf(p) ==
    CHOOSE k \in 1..Len(threads) :
        /\ CountBefore(threads, k) < p
        /\ p <= CountBefore(threads, k) + threads[k].message_count

\* The size of the open thread when the message at position j was examined.
OpenSizeAt(j) ==
    IF j = 1 THEN 0 ELSE j - 1 - CountBefore(threads, ThreadOf(j - 1))

Gap(i, j) == to_timestamp(messages[j]) - to_timestamp(messages[i])

\* C1: for a chronologically sorted input, the messages of the returned
\* threads, concatenated in output order, are exactly the input list.
C1_Coverage ==
    (Returned /\ IsSorted(messages)) => Flatten(threads) = messages

C1_Witness ==
    /\ Returned
    /\ IsSorted(messages)
    /\ Len(messages) >= 3
    /\ Len(threads) >= 2
    /\ \E k \in 1..Len(threads) : threads[k].message_count >= 2

ThreadsInStartOrder ==
    \A a, b \in 1..Len(threads) : a < b => threads[a].start_time <= threads[b].start_time

MessagesInOrder ==
    \A k \in 1..Len(threads) : IsSorted(threads[k].messages)

\* C2 as stated, for a detector with the default settings: for any input
\* list, the returned threads are in non-decreasing start_time order and each
\* thread's messages in non-decreasing timestamp order.
C2_OrderingAnyInput ==
    (Returned /\ max_messages = DefaultMaxMessages)
        => (ThreadsInStartOrder /\ MessagesInOrder)

\* C2 amended: the same for a chronologically sorted input list.
C2_OrderingSortedInput ==
    (Returned /\ IsSorted(messages)) => (ThreadsInStartOrder /\ MessagesInOrder)

C2_Witness ==
    /\ Returned
    /\ IsSorted(messages)
    /\ Len(threads) >= 2
    /\ threads[1].start_time < threads[2].start_time
    /\ \E k \in 1..Len(threads) : threads[k].start_time < threads[k].end_time

\* C3 as stated: whatever max_messages the constructor ends with, no thread
\* has more than max_messages messages.
C3_MaxSizeAnyValue ==
    \A k \in 1..Len(threads) : threads[k].message_count <= max_messages

\* C3 amended: when max_messages is at least 1, no thread, sealed or open,
\* has more than max_messages messages.
C3_MaxSizeBound ==
    max_messages >= 1 =>
        /\ \A k \in 1..Len(threads) : threads[k].message_count <= max_messages
        /\ Len(current_thread_messages) <= max_messages

C3_Witness ==
    /\ Returned
    /\ max_messages = 2
    /\ Len(messages) >= 3
    /\ threads[1].message_count = 2
    /\ Gap(2, 3) = 0
    /\ get_sender_name(messages[3]) = get_sender_name(messages[2])

\* C4 as stated, for a detector with the default settings: B replies to A,
\* the only message with A's id, and B's timestamp is within time_window of
\* A's (sorted input, A before B): A and B are in the same returned thread.
C4_ReplyBindingAnyDistance ==
    (Returned /\ IsSorted(messages) /\ max_messages = DefaultMaxMessages) =>
        \A i, j \in 1..Len(messages) :
            ( /\ i < j
              /\ messages[j].reply_to_message_id = messages[i].id
              /\ \A h \in 1..Len(messages) : messages[h].id = messages[i].id => h = i
              /\ Gap(i, j) <= time_window )
            => ThreadOf(i) = ThreadOf(j)

\* Message i was in the open thread when message j was examined, that thread
\* had room, and j is within time_window of the thread's last message.
ReplyReachesOpenThread(i, j) ==
    /\ i < j
    /\ messages[j].reply_to_message_id = messages[i].id
    /\ ThreadOf(i) = ThreadOf(j - 1)
    /\ OpenSizeAt(j) < max_messages
    /\ Gap(j - 1, j) <= time_window

\* C4 amended: B replies to A, A is in the open thread when B is examined,
\* the open thread has fewer than max_messages messages and B is at most
\* time_window after the thread's last message: B joins A's thread.
C4_ReplyBindingOpenThread ==
    Returned =>
        \A i, j \in 1..Len(messages) :
            ReplyReachesOpenThread(i, j) => ThreadOf(i) = ThreadOf(j)

C4_Witness ==
    /\ Returned
    /\ \E i, j \in 1..Len(messages) :
         /\ ReplyReachesOpenThread(i, j)
         /\ i + 1 < j
         /\ Gap(j - 1, j) > QuickReplySeconds
         /\ get_sender_name(messages[j]) \notin
              { get_sender_name(messages[h]) : h \in 1..(j - 1) }
         /\ ThreadOf(i) = ThreadOf(j)

NoDuplicates(seq) == \A a, b \in 1..Len(seq) : a # b => seq[a] # seq[b]

WellFormed(t) ==
    /\ t.messages # <<>>
    /\ t.start_time = to_timestamp(t.messages[1])
    /\ t.end_time = to_timestamp(t.messages[Len(t.messages)])
    /\ t.message_count = Len(t.messages)
    /\ { t.participants[k] : k \in 1..Len(t.participants) }
         = { get_sender_name(t.messages[k]) : k \in 1..Len(t.messages) }
    /\ NoDuplicates(t.participants)

\* C7: every thread create_thread built has a non-empty message list, its
\* first and last timestamps as start_time and end_time, its length as
\* message_count, and each sender name exactly once in participants.
C7_WellFormedThreads ==
    \A k \in 1..Len(threads) : WellFormed(threads[k])

C7_Witness ==
    /\ Returned
    /\ \E k \in 1..Len(threads) :
         /\ threads[k].message_count = 3
         /\ Len(threads[k].participants) = 2
         /\ threads[k].start_time < threads[k].end_time

\* C8: no two threads of one output share a thread_id (sorted input,
\* max_messages at least 1).
C8_UniqueThreadIds ==
    (Returned /\ IsSorted(messages) /\ max_messages >= 1) =>
        \A a, b \in 1..Len(threads) :
            a # b => threads[a].thread_id # threads[b].thread_id

\* Every message but the first would continue the thread made of all the
\* messages before it, were there no size limit.
AllWouldContinue ==
    \A k \in 2..Len(messages) :
        ContinuesIfRoom(SubSeq(messages, 1, k - 1), messages[k], reply_map)

\* Every message but the first passes the tests on the strength of the message
\* just before it: within time_window of it and from the same sender, within
\* the quick-reply gap, a service message, or a reply to it.
EachContinuesPredecessor ==
    \A k \in 2..Len(messages) :
        /\ Gap(k - 1, k) <= time_window
        /\ \/ get_sender_name(messages[k]) = get_sender_name(messages[k - 1])
           \/ Gap(k - 1, k) <= QuickReplySeconds
           \/ messages[k].type = "service"
           \/ /\ messages[k].reply_to_message_id # 0
              /\ messages[k].reply_to_message_id = messages[k - 1].id

\* Threads of exactly max_messages messages, then one with the remainder.
CutAtLimit ==
    /\ \A k \in 1..(Len(threads) - 1) : threads[k].message_count = max_messages
    /\ threads[Len(threads)].message_count \in 1..max_messages
    /\ CountBefore(threads, Len(threads) + 1) = Len(messages)

\* C9 as stated: with max_messages at least 1, a sorted run of messages that
\* would all continue but for the size limit is cut into threads of exactly
\* max_messages, then the remainder.
C9_CutAtLimitAllWouldContinue ==
    ( /\ Returned
      /\ messages # <<>>
      /\ IsSorted(messages)
      /\ max_messages >= 1
      /\ AllWouldContinue ) => CutAtLimit

\* A message examined when the open thread held max_messages messages is not
\* in the thread of the message before it.
ForcedBoundary ==
    \A j \in 2..Len(messages) :
        OpenSizeAt(j) >= max_messages => ThreadOf(j) # ThreadOf(j - 1)

\* C9 amended: a message that finds the open thread full starts a new thread,
\* whatever it replies to and whoever sent it; and with max_messages at least
\* 1, a run of messages each of which continues from the message just before
\* it is cut into threads of exactly max_messages, then the remainder.
C9_CutAtLimit ==
    (Returned /\ messages # <<>>) =>
        /\ ForcedBoundary
        /\ (max_messages >= 1 /\ EachContinuesPredecessor) => CutAtLimit

C9_Witness ==
    /\ Returned
    /\ max_messages = 2
    /\ Len(messages) = 5
    /\ EachContinuesPredecessor
    /\ messages[3].reply_to_message_id = messages[1].id
    /\ Len(threads) = 3
    /\ threads[1].message_count = 2
    /\ threads[2].message_count = 2
    /\ threads[3].message_count = 1

\* C10: a service message within time_window of the last message of an open
\* thread that has room joins that thread, whoever its actor; and a document
\* has has_service_messages exactly when its thread holds a service message.
C10_ServiceMessages ==
    /\ Returned =>
         \A j \in 2..Len(messages) :
            ( /\ messages[j].type = "service"
              /\ OpenSizeAt(j) < max_messages
              /\ Gap(j - 1, j) <= time_window )
            => ThreadOf(j) = ThreadOf(j - 1)
    /\ pc = "prepared" =>
         /\ Len(documents) = Len(threads)
         /\ \A k \in 1..Len(documents) :
              documents[k].has_service_messages
                <=> \E h \in 1..Len(threads[k].messages) :
                       threads[k].messages[h].type = "service"

C10_Witness ==
    /\ pc = "prepared"
    /\ Len(documents) = 2
    /\ documents[1].has_service_messages
    /\ ~documents[2].has_service_messages
    /\ messages[2].type = "service"
    /\ Gap(1, 2) > QuickReplySeconds
    /\ get_sender_name(messages[1]) # get_sender_name(messages[2])

\* ---------------------------------------------------------------- C5
\* An object of the collection per thread_id at most.
AtMostOneDocumentPerThreadId == NoDuplicates(store)

\* C5: after two runs over the same export with skip_existing true, in which
\* no batch insertion raised, the collection holds at most one object per
\* thread_id (the second run wrote nothing already stored), whether or not
\* listing the existing ids succeeded.
C5_IdempotentReingestion ==
    (run = 2 /\ ipc = "returned" /\ skip_existing /\ batch_errors = 0)
        => AtMostOneDocumentPerThreadId

\* ---------------------------------------------------------------- C6
\* The thread holds a message whose timestamp is after the cutoff.
HasMessageAfter(thread, cutoff) ==
    \E k \in 1..Len(thread.messages) :
        thread.messages[k].date_unixtime > cutoff.value

\* C6: filter_new_threads returns, in the original order, exactly the
\* threads with a message whose timestamp is strictly greater than the
\* cutoff; with no latest timestamp the full list is kept.
C6_FilterExact ==
    /\ fpc # "raised"
    /\ fpc \in {"filtered", "no_new"} =>
          new_threads = SelectSeq(all_threads,
                                  LAMBDA t : HasMessageAfter(t, latest_timestamp))
    /\ fpc = "kept" => new_threads = all_threads

\* ---------------------------------------------------------------- C18
\* The open thread when the message at position j was examined.
OpenThreadAt(j) ==
    IF j = 1 THEN <<>>
    ELSE SubSeq(messages, CountBefore(threads, ThreadOf(j - 1)) + 1, j - 1)

\* The message at position j was appended to the open thread.
Accepted(j) == j >= 2 /\ ThreadOf(j) = ThreadOf(j - 1)

\* C18: a message more than time_window after the last message of the open
\* thread starts a new thread, whatever it replies to, whatever its type and
\* whoever sent it; a message of a sender of the thread exactly time_window
\* after the last message of a thread with room is appended.
C18_TimeWindowGate ==
    Returned =>
        \A j \in 2..Len(messages) :
            /\ Gap(j - 1, j) > time_window => ~Accepted(j)
            /\ ( /\ Gap(j - 1, j) = time_window
                 /\ OpenSizeAt(j) < max_messages
                 /\ messages[j].type = "message"
                 /\ get_sender_name(messages[j])
                      \in ThreadParticipants(OpenThreadAt(j)) )
               => Accepted(j)

\* A reply to the only message of the open thread, 7 minutes after it with the
\* default window of 5, starts a new thread.
C18_Witness ==
    /\ Returned
    /\ Len(messages) = 2
    /\ max_messages = DefaultMaxMessages
    /\ time_window = DefaultTimeWindowMinutes * SecondsPerMinute
    /\ Gap(1, 2) > time_window
    /\ messages[2].reply_to_message_id = messages[1].id
    /\ Len(threads) = 2

\* ---------------------------------------------------------------- C19
\* C19, for a detector with the default settings: a candidate whose id is the
\* reply target of a message of the open thread, at most time_window after
\* the thread's last message, is appended to the thread (sorted input).
C19_ReverseReplyAccepted ==
    (Returned /\ IsSorted(messages) /\ max_messages = DefaultMaxMessages) =>
        \A j \in 2..Len(messages) :
            ( /\ Gap(j - 1, j) <= time_window
              /\ \E i \in 1..Len(OpenThreadAt(j)) :
                    OpenThreadAt(j)[i].reply_to_message_id = messages[j].id )
            => Accepted(j)

\* ---------------------------------------------------------------- C20
\* Neither test of lines 142-151 links the message at position j to the open
\* thread, and no message of the open thread replies to it.
NoReplyLink(j) ==
    /\ ~RepliesIntoThread(OpenThreadAt(j), messages[j])
    /\ ~ReplyMapHit(OpenThreadAt(j), messages[j], reply_map)
    /\ \A i \in 1..Len(OpenThreadAt(j)) :
          OpenThreadAt(j)[i].reply_to_message_id # messages[j].id

StoredThreadIds == { store[k] : k \in 1..Len(store) }

\* C12: with skip_existing true, the documents ingest_documents goes on to
\* write are exactly the prepared documents whose thread_id is not in the
\* collection; with skip_existing false they are all the prepared documents.
C12_DedupAgainstStore ==
    [][ (ipc = "start" /\ ipc' # "start") =>
          ingest_docs' =
            IF skip_existing
            THEN SelectSeq(prepared,
                           LAMBDA doc : doc.thread_id \notin StoredThreadIds)
            ELSE prepared ]_vars

\* ---------------------------------------------------------------- C13
\* Every batch has been attempted and the retry is not yet decided.
BatchesDone == ipc = "batches" /\ batch_start >= Len(ingest_docs)

\* C13: the retry pass runs if and only if at least one and fewer than
\* RetryLimit documents failed, at most once, over exactly the failed
\* documents, each once, and it ends with the documents that failed again
\* counted as failed.
C13_BoundedRetry ==
    /\ ipc # "hung"
    /\ Len(retry_batches) <= 1
    /\ BatchesDone =>
         /\ NoDuplicates(failed_threads)
         /\ Len(failed_threads) = ingest_stats.failed
         /\ Len(failed_threads) + ingest_stats.successful = Len(ingest_docs)
    /\ ipc = "returned" =>
         IF retry_batches = <<>>
         THEN ingest_stats.failed = 0 \/ ingest_stats.failed >= RetryLimit
         ELSE /\ Len(retry_batches[1]) \in 1..(RetryLimit - 1)
              /\ ingest_stats.failed \in {0, Len(retry_batches[1])}

C16_EmptyThreadRejected ==
    (cpc # "call" /\ thread_arg.messages = <<>>) =>
        (cpc = "raised" /\ doc_result = PyNone)

\* ---------------------------------------------------------------- C11
\* The returned messages are in ascending order of timestamp, and messages
\* of equal timestamp are in the order of the export.
SortedStable(msgs) ==
    \A a, b \in 1..Len(msgs) : a < b =>
        \/ SortKey(msgs[a]) < SortKey(msgs[b])
        \/ /\ SortKey(msgs[a]) = SortKey(msgs[b])
           /\ msgs[a].export_index < msgs[b].export_index

\* C11: load_messages skips every record that fails validation without
\* aborting; returned plus skipped equals the number of records, and the
\* returned messages are sorted by timestamp with ties in export order.
C11_LoadSkipsAndSorts ==
    /\ lpc # "raised"
    /\ lpc = "returned" =>
          /\ Len(loaded) + skipped = Len(export_records)
          /\ SortedStable(loaded)

\* ---------------------------------------------------------------- C15
\* A step that starts a run of the ingestion pipeline.
RunStarts == run' # run

BadName(req) == req.filename = <<>> \/ ~endswith(req.filename, JsonSuffix)

NotJson(req) == req.content.kind # "json"

NotExport(req) ==
    /\ req.content.kind = "json"
    /\ ~(req.content.value.type = "dict" /\ req.content.value.has_messages)

\* C17: an upload whose file name does not end in .json, whose body is not
\* valid JSON, or whose JSON is not an object with a 'messages' field is
\* rejected with HTTP 400 (4001, 4002, 4003 in the order of the tests), and
\* leaves the stored export file and its backup unchanged.
C17_UploadValidation ==
    [][ (upc = "received" /\ upc' = "waiting" /\
         (BadName(upload) \/ NotJson(upload) \/ NotExport(upload))) =>
          /\ response'.status_code = 400
          /\ response'.error_code =
                IF BadName(upload) THEN 4001
                ELSE IF NotJson(upload) THEN 4002 ELSE 4003
          /\ UNCHANGED <<target_file, backup_file>> ]_vars

\* ---------------------------------------------------------------- C21
\* The step examines the message at next_index and rejects it.
RejectStep ==
    /\ pc = "loop"
    /\ next_index' = next_index + 1
    /\ ~should_continue_thread(current_thread_messages, messages[next_index],
                               reply_map)

\* C21: during detect_threads the output list only grows by appending, so a
\* sealed thread is never changed by a later message; a rejected candidate
\* becomes the sole member of the new open accumulation, and the
\* accumulation it closed is the thread appended.
C21_NoBacktracking ==
    [][ /\ Len(threads') >= Len(threads)
        /\ SubSeq(threads', 1, Len(threads)) = threads
        /\ Len(threads') <= Len(threads) + 1
        /\ RejectStep =>
              /\ current_thread_messages' = <<messages[next_index]>>
              /\ IF current_thread_messages = <<>>
                 THEN threads' = threads
                 ELSE /\ Len(threads') = Len(threads) + 1
                      /\ threads'[Len(threads')].messages = current_thread_messages
      ]_vars

\* Two threads are sealed and a third accumulation is open.
C21_Witness ==
    /\ pc = "loop"
    /\ Len(messages) = 3
    /\ next_index = 4
    /\ Len(threads) = 2
    /\ threads[1].messages = <<messages[1]>>
    /\ threads[2].messages = <<messages[2]>>
    /\ current_thread_messages = <<messages[3]>>

\* ---------------------------------------------------------------- C22
RECURSIVE ConcatPrefix(_, _)
\* The first n of the sequences seqs, joined.
ConcatPrefix(seqs, n) ==
    IF n = 0 THEN <<>> ELSE ConcatPrefix(seqs, n - 1) \o seqs[n]

\* C22: the batches ingest_documents submits are consecutive slices of the
\* documents left after dedup, in document order: joined they are the
\* documents up to the position of the loop (all of them when the loop has
\* ended), each has at most batch_size documents and at least one, and each
\* except possibly the last has exactly batch_size.
C22_Batching ==
    ipc \in {"batches", "returned", "hung"} =>
        /\ ConcatPrefix(batches, Len(batches)) =
               SubSeq(ingest_docs, 1, Min(batch_start, Len(ingest_docs)))
        /\ \A k \in 1..Len(batches) :
               /\ Len(batches[k]) \in 1..batch_size
               /\ k < Len(batches) => Len(batches[k]) = batch_size
        /\ (ipc # "batches" \/ batch_start >= Len(ingest_docs)) =>
               ConcatPrefix(batches, Len(batches)) = ingest_docs

\* Three documents went out as a batch of two and a batch of one.
C22_Witness ==
    /\ ipc = "returned"
    /\ batch_size = 2
    /\ Len(ingest_docs) = 3
    /\ Len(batches) = 2
    /\ Len(batches[1]) = 2
    /\ Len(batches[2]) = 1

\* ---------------------------------------------------------------- C23
\* The step is an iteration of the batch loop whose write failed.
BatchWriteFails ==
    /\ ipc = "batches"
    /\ Len(batches') = Len(batches) + 1
    /\ batch_errors' = batch_errors + 1

\* The last n elements of a sequence.
LastN(seq, n) == SubSeq(seq, Len(seq) - n + 1, Len(seq))

\* C23: a failed batch write does not end the batch loop, so every later
\* batch is still attempted; no step removes a document from the store; and
\* all documents of the failed batch are appended to failed_threads.
C23_ContinueOnError ==
    /\ [][ /\ Len(store') >= Len(store)
           /\ SubSeq(store', 1, Len(store)) = store ]_vars
    /\ [][ BatchWriteFails =>
             /\ ipc' = "batches"
             /\ batch_start' = batch_start + batch_size
             /\ Len(failed_threads') >= Len(failed_threads) + Len(batches'[Len(batches')])
             /\ LastN(failed_threads', Len(batches'[Len(batches')])) =
                   batches'[Len(batches')] ]_vars
    /\ []((ipc \in {"returned", "hung"} /\ ingest_docs # <<>>) =>
            Len(batches) * batch_size >= Len(ingest_docs))

\* Of three batches of one document the second failed: the first document
\* is still in the store and the third was written after the failure.
C23_Witness ==
    /\ ipc = "batches"
    /\ batch_size = 1
    /\ Len(ingest_docs) = 3
    /\ batch_start >= Len(ingest_docs)
    /\ Len(batches) = 3
    /\ batch_errors = 1
    /\ failed_threads = <<ingest_docs[2]>>
    /\ store = <<ingest_docs[1].thread_id, ingest_docs[3].thread_id>>

\* ---------------------------------------------------------------- C24
\* The threads of this run that did not convert.
ConversionFailures ==
    Cardinality({ k \in 1..Len(run_threads) : ~run_threads[k].converts })

\* The documents of the threads that converted, in the order of the threads.
ConvertedInOrder ==
    /\ Len(prepared) = Len(run_threads) - ConversionFailures
    /\ \A k \in 1..Len(prepared) :
          prepared[k].thread_id =
             SelectSeq(run_threads, LAMBDA t : t.converts)[k].thread_id

\* C24: a thread that fails to convert is skipped without aborting the run,
\* the other threads are converted in order, and the skipped count reported
\* at the end of the run includes every such skip, also when dedup removed
\* already-stored documents in the same run.
C24_ConversionSkipsCounted ==
    /\ run >= 1 => ConvertedInOrder
    /\ ipc = "returned" =>
          ingest_stats.skipped =
             ConversionFailures + (Len(prepared) - Len(ingest_docs))

\* ---------------------------------------------------------------- C26
\* The list the retry pass was handed when it began.
RetryList == retry_batches[Len(retry_batches)]

\* The elements of failed_threads the retry loop has still to visit.
RetryRemaining == Len(failed_threads) - retry_index + 1

\* C26: ingest_documents returns for every pattern of preparation and write
\* failures: no pass is left unable to end, and the retry loop over the
\* failed-document list visits the documents it was handed and ends, so it
\* never goes past the end of the list it began with.
C26_IngestionTerminates ==
    ipc = "hung" =>
        /\ retry_index <= Len(RetryList) + 1
        /\ (retry_index > 1 => RetryRemaining < Len(RetryList))

\* ---------------------------------------------------------------- C25
\* The number of objects in the collection that carry thread id tid.
StoredCount(tid) ==
    Cardinality({ k \in 1..Len(shared_store) : shared_store[k] = tid })

BothReturned == \A p \in Runs : run_pc[p] = "returned"

\* C25: when two runs with dedup interleave so that both have read the
\* existing thread ids before either has written, both write every document
\* that was not stored before, and the store ends with two documents for
\* each such thread id.
C25_ConcurrentRunsDuplicate ==
    (BothReturned /\ read_before_write) =>
        \A k \in 1..Len(export_docs) :
            export_docs[k].thread_id \notin run_existing_ids[1] =>
                StoredCount(export_docs[k].thread_id) = 2

\* Both runs read an empty collection before either wrote, and the store
\* ends with two documents of the same thread id.
C25_Witness ==
    /\ BothReturned
    /\ read_before_write
    /\ run_existing_ids[1] = {}
    /\ run_existing_ids[2] = {}
    /\ \E a, b \in 1..Len(shared_store) :
          a # b /\ shared_store[a] = shared_store[b]

\* ---------------------------------------------------------------- C27
\* Message k of the export is among the messages of a stored document.
MessageStored(k) ==
    \E d \in 1..Len(inc_store) :
        \E j \in 1..Len(inc_store[d].messages) :
            inc_store[d].messages[j] = inc_export[k]

\* C27: after a full run and an incremental run on the export extended with
\* later messages, no query or write having failed, every message of the
\* extended export is in some stored document.
C27_IncrementalCompleteness ==
    (inc_pc \in {"done", "raised"} /\ ~inc_query_failed) =>
        \A k \in 1..Len(inc_export) : MessageStored(k)

\* ---------------------------------------------------------------- C28
\* The first n messages of the input are followed by later ones.
LaterFollow(n) ==
    /\ n \in 1..(Len(messages) - 1)
    /\ to_timestamp(messages[n]) < to_timestamp(messages[n + 1])

IsPrefix(short, long) ==
    Len(short) <= Len(long) /\ SubSeq(long, 1, Len(short)) = short

\* The threads of the first n messages alone, against the threads of the
\* whole input.
PrefixStable(n) ==
    LET first == detect_threads(SubSeq(messages, 1, n))
        last  == Len(first)
    IN  /\ last <= Len(threads)
        /\ \A k \in 1..(last - 1) :
               /\ threads[k].messages = first[k]
               /\ threads[k].thread_id =
                    ThreadIdOf(to_timestamp(first[k][1]), first[k][1].id)
        /\ last >= 1 =>
               /\ IsPrefix(first[last], threads[last].messages)
               /\ threads[last].thread_id =
                    ThreadIdOf(to_timestamp(first[last][1]), first[last][1].id)

\* C28: for a sorted input that is a shorter sorted input followed by later
\* messages, the threads of the shorter input except the last are leading
\* threads of the result, unchanged, and its last thread is a prefix of the
\* thread at the same place, with the same thread id.
C28_PrefixStability ==
    (pc = "done" /\ IsSorted(messages)) =>
        \A n \in 1..Len(messages) : LaterFollow(n) => PrefixStable(n)

\* ---------------------------------------------------------------- C29
RunEnded == rpc \in {"returned", "raised"}

\* C29: the connection run_ingestion opened is never closed twice and is
\* closed exactly once when the call has ended, on normal completion, on
\* the early return of an incremental run (which has written nothing) and
\* on an exception inside the try block, which the call ends with.
C29_ClientRelease ==
    /\ client_closed <= client_opened
    /\ RunEnded => client_closed = client_opened
    /\ (RunEnded /\ rel_outcome = "early_return") =>
           (rpc = "returned" /\ rel_written = 0 /\ client_closed = 1)
    /\ (RunEnded /\ rel_outcome = "complete") =>
           (rpc = "returned" /\ client_closed = 1)
    /\ (RunEnded /\ rel_error # "none") =>
           (rpc = "raised" /\ rel_reraised = rel_error /\ client_closed = 1)
    /\ rpc = "returned" => rel_error = "none"

\* An incremental run found no new thread, returned early, and its
\* connection is closed.
C29_Witness ==
    /\ rpc = "returned"
    /\ rel_flags.incremental
    /\ rel_outcome = "early_return"
    /\ client_opened = 1
    /\ client_closed = 1
    /\ rel_written = 0

\* ---------------------------------------------------------------- C30
\* Chunk c of the result comes from a hit of the query.
FromHit(c) ==
    \E k \in 1..Len(search_hits) :
        /\ search_hits[k].thread_id = chunks[c].thread_id
        /\ hit_score(search_hits[k]).value = chunks[c].score

\* C30: search_weaviate returns at most limit chunks, each made from a hit,
\* none with a score under the threshold, in falling score order; and the
\* client it opened is closed when the call has ended, returned or raised.
C30_RetrievalShape ==
    /\ spc = "returned" =>
          /\ Len(chunks) <= search_limit
          /\ \A c \in 1..Len(chunks) :
                 chunks[c].score >= score_threshold /\ FromHit(c)
          /\ \A c \in 1..(Len(chunks) - 1) :
                 chunks[c].score >= chunks[c + 1].score
    /\ search_closed <= search_opened
    /\ spc \in {"returned", "raised"} => search_closed = search_opened

\* A call with limit 2 got three hits over the threshold in rising score
\* order and returned the two best, best first; the client is closed.
C30_Witness ==
    /\ spc = "returned"
    /\ search_limit = 2
    /\ score_threshold = 5
    /\ Len(search_hits) = 3
    /\ \A k \in 1..2 : hit_score(search_hits[k]).value
                          < hit_score(search_hits[k + 1]).value
    /\ hit_score(search_hits[1]).value >= 5
    /\ Len(chunks) = 2
    /\ chunks[1].thread_id = 3
    /\ chunks[2].thread_id = 2
    /\ search_closed = 1
====
